---- MODULE Spec2Model ----
(***************************************************************************)
(* Order of the Crimson Dot (js13k 2025): the pet simulation of             *)
(* src/src/js/script.js driven by the fixed-step GameLoop of                *)
(* src/modules/pointer.js.                                                  *)
(*                                                                          *)
(* Number representation.  The program computes in IEEE doubles; the model  *)
(* computes in exact integers on fixed grids:                               *)
(*   time       1 unit = one fixed step dt = 1/Fps s (every update call     *)
(*              receives exactly this dt);                                  *)
(*   happiness  1 unit = 1/Fps of a happiness point (so "- dt" is "- 1");   *)
(*   length     1 unit = 1/PosScale pixel;                                  *)
(*   exhaustion 1 unit = 1/ExhScale of an exhaustion point.                 *)
(* Comparisons of distances are made on squared lengths and are exact;     *)
(* Math.sqrt is the integer square root (rounded down), a division that    *)
(* does not come out even is rounded toward zero.                          *)
(***************************************************************************)
EXTENDS Integers, Sequences, FiniteSets, TLC

----------------------------------------------------------------------------
(* Bounds of the model *)

\* sub-pixel positions per pixel
PosScale == 8
\* Math.random() returns k / RandDen for k in RandDraws
RandDen == 16
\* number of cat.update calls explored from an initial snapshot
MaxTicks == 4
\* number of debounced resize callbacks explored
MaxResizes == 1

----------------------------------------------------------------------------
(* Program constants *)

Fps == 60
LEVEL_HEIGHT == 10
LEVEL_WIDTH == 22
MIN_ZOOM == 1
TILE_SIZE == 32
COUCH_THRESHOLD == 10
EATING_DURATION == 3
EVOLUTION_BASE_TIME == 20
EXHAUST_THRESHOLD == 333
FOOD_THRESHOLD == TILE_SIZE
IDLE_TIMEOUT == 1
IDLE_TO_SLEEP_TIMEOUT == 10
RECOVERY_RATE == 5
SLEEP_DURATION == 10
SLEEP_THRESHOLD == 500
FOOD_EXHAUST_LEVEL == 433
HAPPINESS_MAX == 100
NEW_GAME_HAPPINESS == 25
FINAL_LEVEL == 2
maxSpeed == 5
frameWidth == 32
frameHeight == 32
\* the two values of the best time that are not times
NaN == -1
Infinity == -2
FOOD_ATTEMPTS == 20

\* CAT_STATES
ASLEEP == "asleep"
AWAKE == "awake"
EATING == "eating"
EXHAUSTED == "exhausted"
IDLE == "idle"
SEEKING_COUCH == "seekingCouch"
CAT_STATES == {ASLEEP, AWAKE, EATING, EXHAUSTED, IDLE, SEEKING_COUCH}

\* LEVEL = ['kitten', 'cat', CLASS_STORM, 'order']
LEVEL == <<"kitten", "cat", "storm", "order">>

----------------------------------------------------------------------------
(* Units *)

\* n pixels in length units
Px(n) == n * PosScale
\* exhaustion units per exhaustion point: a multiple of 10 * PosScale
\* (EXHAUST_FACTOR = 0.1 per pixel), of 12 (RECOVERY_RATE * dt = 5/60) and of
\* 8 (RECOVERY_RATE * 1.5 * dt = 7.5/60)
ExhScale == 120 * PosScale
Exh(n) == n * ExhScale
\* n happiness points in happiness units
Hap(n) == n * Fps
\* n seconds in steps
Sec(n) == n * Fps

Abs(a) == IF a < 0 THEN -a ELSE a
Min(a, b) == IF a < b THEN a ELSE b
Max(a, b) == IF a > b THEN a ELSE b
\* a / b rounded toward zero, b > 0
Quot(a, b) == IF a < 0 THEN -((-a) \div b) ELSE a \div b

RECURSIVE SqrtSearch(_, _, _)
SqrtSearch(n, lo, hi) ==
    IF lo >= hi THEN lo
    ELSE LET mid == (lo + hi + 1) \div 2
         IN  IF mid * mid <= n THEN SqrtSearch(n, mid, hi)
             ELSE SqrtSearch(n, lo, mid - 1)
\* Math.sqrt, rounded down
Sqrt(n) == SqrtSearch(n, 0, 46340)

\* calcDistance squared: dx * dx + dy * dy
distanceSq(x1, y1, x2, y2) == (x1 - x2) * (x1 - x2) + (y1 - y2) * (y1 - y2)
\* calcDistance
calcDistance(x1, y1, x2, y2) == Sqrt(distanceSq(x1, y1, x2, y2))
\* clamp
clamp(value, min, max) == Max(min, Min(max, value))
\* recoveryRateCalculation with multiplier num/2 (1 = 2/2, 1.5 = 3/2):
\* Math.max(0, meter - rate * multiplier * dt)
recoveryRateCalculation(meter, rate, twiceMultiplier) ==
    Max(0, meter - (Exh(rate) * twiceMultiplier) \div (2 * Fps))

----------------------------------------------------------------------------
(* State *)

VARIABLES
    cat,          \* game.cat: state, position, meters, timers, evolution fields
    couch,        \* game.couch: x, y and the size of couch.webp
    food,         \* game.food: x, y, isVisible and the size of food.webp
    game,         \* game.gameTime, game.over, game.muted, game.musicPlaying
    loopStopped,  \* game.loop.isStopped
    sceneStopped, \* game.scene.isStopped
    player,       \* the music closure's player: "none" (null) or "playing"
    canvasMode,   \* the canvas class set by setCanvasMode: "", "storm"
    zoomFactor,   \* zoomFactor; canvas.width and canvas.height follow from it
    ticks,        \* number of cat.update calls made so far (bounded by MaxTicks)
    resizes,      \* number of resize callbacks made so far (bounded by MaxResizes)
    last,         \* the step just taken: what ran, the pet and the food before
                  \* it, how often evolve() was called, the distance the pet
                  \* moved towards the pointer, whether the handler threw,
                  \* whether the re-engagement check made the pet Awake,
                  \* the key released (if it was a key-up), and
                  \* the pet and game.gameTime at the moment the loop was
                  \* last paused by a key (<<>> when it was started since)
    origin,       \* the pet of the initial state
    callbacks,    \* the animation-frame callbacks of game.loop that are
                  \* requested and not yet run: stored - the one whose id the
                  \* loop holds in rAF, loose - the number of the others
    pending,      \* the running frame(): the update calls it still makes
                  \* and the pointer position during it
    sampler,      \* positionFood's retry loop: attempts made, the draw of
                  \* the last attempt, whether every attempt so far was too
                  \* close to the couch, and where the loop is
    clock,        \* the timing of game.loop: focused, accumulator, the time
                  \* since last, the sum of the dt that frame() has added to
                  \* the accumulator, the number of update calls made, the
                  \* number of frame() runs, and whether frame() is in its
                  \* while loop
    storage,      \* localStorage under the key 'ootcdBest': item - the text
                  \* stored (<<>> when there is none), shown - the best time
                  \* on display; and for the record first - the item found
                  \* at the start, runs - the arguments trackBestTime was
                  \* called with since
    loader        \* the load(path, assets) call of the script: the asset
                  \* names, which handler of each image has fired, the
                  \* images object, whether Promise.all is fulfilled and
                  \* its reaction is queued, and the state and the value of
                  \* the promise returned

vars == <<cat, couch, food, game, loopStopped, sceneStopped, player, canvasMode,
          zoomFactor, ticks, resizes, last, origin, callbacks, pending, sampler,
          clock, storage, loader>>

\* canvas.width / canvas.height as set by setZoomFactor
canvasWidth(z) == Px(LEVEL_WIDTH * TILE_SIZE * z)
canvasHeight(z) == Px(LEVEL_HEIGHT * TILE_SIZE * z)
\* game.cat.scaled()
scaledWidth(z) == Px(frameWidth * z)
scaledHeight(z) == Px(frameHeight * z)
\* setPosition = (a, b) => (a - (b * zoomFactor)) / 2
setPosition(a, b, z) == Quot(a - b * z, 2)

\* The part of the program state that cat.update and the handlers work on.
World == [cat |-> cat, couch |-> couch, food |-> food, game |-> game,
          loopStopped |-> loopStopped, sceneStopped |-> sceneStopped,
          canvasMode |-> canvasMode, zoom |-> zoomFactor, evolved |-> 0, moved |-> 0,
          reengaged |-> FALSE, storage |-> storage]

----------------------------------------------------------------------------
(* Helpers of script.js *)

\* a resetTimers that forgets the outside-range timer
resetTimersIdleOnly(c) == [c EXCEPT !.idleTimer = 0]

\* resetTimers
resetTimers(c) == [c EXCEPT !.idleTimer = 0, !.outsideRangeTimer = 0]

\* positionCouch with the two Math.random() results rx / RandDen, ry / RandDen
positionCouch(w, rx, ry) ==
    LET margin == Px(2 * TILE_SIZE * w.zoom)
        maxX == canvasWidth(w.zoom) - Px(w.couch.width * w.zoom) - margin
        maxY == canvasHeight(w.zoom) - Px(w.couch.height * w.zoom) - margin
    IN  [w EXCEPT !.couch.x = margin + (rx * maxX) \div RandDen,
                  !.couch.y = margin + (ry * maxY) \div RandDen]

\* positionFood.  The do-while loop draws until a draw is at least
\* minDistance from the couch or FOOD_ATTEMPTS draws are made; <<rx, ry>> is
\* the draw it ends with, which is any draw: an acceptable one ends the loop,
\* an unacceptable one is kept when it is draw number FOOD_ATTEMPTS.
positionFood(w, rx, ry) ==
    LET margin == Px(TILE_SIZE * w.zoom)
        maxX == canvasWidth(w.zoom) - Px(w.food.width * w.zoom) - margin
        maxY == canvasHeight(w.zoom) - Px(w.food.height * w.zoom) - margin
    IN  [w EXCEPT !.food.x = margin + (rx * maxX) \div RandDen,
                  !.food.y = margin + (ry * maxY) \div RandDen,
                  !.food.isVisible = TRUE]

\* game.cat.centerOn(targetObject, xOffset, yOffset), offsets in pixels
centerOn(w, target, xOffset, yOffset) ==
    LET catScaledW == scaledWidth(w.zoom)
        catScaledH == scaledHeight(w.zoom)
        targetScaledW == Px(target.width * w.zoom)
        targetScaledH == Px(target.height * w.zoom)
    IN  [w EXCEPT !.cat.x = target.x + Quot(targetScaledW - catScaledW, 2) + Px(xOffset),
                  !.cat.y = target.y + Quot(targetScaledH - catScaledH, 2) + Px(yOffset)]

\* a sleep() that leaves the food bowl as it is
sleepKeepsFood(w, centerOnCouch) ==
    LET w1 == [w EXCEPT !.cat = [resetTimers(@) EXCEPT !.state = ASLEEP, !.sleepTimer = 0]]
    IN  IF centerOnCouch
        THEN centerOn(w1, w1.couch, 8 * w.zoom, (-2) * w.zoom)
        ELSE w1

\* game.cat.sleep(centerOnCouch)
sleep(w, centerOnCouch) ==
    LET w1 == [w EXCEPT !.cat = [resetTimers(@) EXCEPT !.state = ASLEEP, !.sleepTimer = 0],
                        !.food.isVisible = FALSE]
    IN  IF centerOnCouch
        THEN centerOn(w1, w1.couch, 8 * w.zoom, (-2) * w.zoom)
        ELSE w1

\* game.cat.startEating
startEating(w) ==
    LET w1 == [w EXCEPT !.cat = [resetTimers(@) EXCEPT !.state = EATING, !.eatingTimer = 0]]
    IN  centerOn(w1, w1.food, (-10) * w.zoom, (-5) * w.zoom)

\* game.cat.startSeekingCouch
startSeekingCouch(w) ==
    [w EXCEPT !.cat = [resetTimers(@) EXCEPT !.state = SEEKING_COUCH]]

\* the assets of the game, each name as the list of its parts between the
\* dots: name.split('.')
GameAssets == << <<"couch", "webp">>, <<"food", "webp">>, <<"kitten", "png">>,
                <<"order", "webp">> >>

\* the key an image is stored under: name.split('.')[0]
imageKey(name) == name[1]

\* the images object after the onload handlers of the assets in ids have
\* run in the order given: a later image replaces an earlier one of its key
RECURSIVE storeImages(_, _, _)
storeImages(images, assets, ids) ==
    IF ids = <<>> THEN images
    ELSE storeImages([k \in DOMAIN images \cup {imageKey(assets[Head(ids)])} |->
                         IF k = imageKey(assets[Head(ids)]) THEN Head(ids) ELSE images[k]],
                     assets, Tail(ids))

\* load(path, assets) has been called: every image is requested, nothing has
\* fired, the promise is pending
loading(assets) ==
    [assets |-> assets, fired |-> [i \in 1..Len(assets) |-> "none"],
     images |-> << >>, allFulfilled |-> Len(assets) = 0, job |-> Len(assets) = 0,
     state |-> "pending", value |-> << >>]

\* the call after every image has loaded and the promise has resolved
loaded(assets) ==
    LET images == storeImages(<< >>, assets, [i \in 1..Len(assets) |-> i])
    IN  [assets |-> assets, fired |-> [i \in 1..Len(assets) |-> "load"],
         images |-> images, allFulfilled |-> TRUE, job |-> FALSE,
         state |-> "resolved", value |-> images]

\* a reject that settles the promise again
rejectWithAlways(l, i) == [l EXCEPT !.state = "rejected", !.value = i]

\* resolve(images) and reject(error) of the promise returned: a settled
\* promise stays as it is
resolveWith(l, v) == IF l.state = "pending" THEN [l EXCEPT !.state = "resolved", !.value = v] ELSE l
rejectWith(l, i) == IF l.state = "pending" THEN [l EXCEPT !.state = "rejected", !.value = i] ELSE l

\* img.onload of asset i: store the image, resolveImage(); Promise.all is
\* fulfilled with the last of them and queues its reaction
onload(l, i) ==
    LET fired == [l.fired EXCEPT ![i] = "load"]
        all == \A j \in DOMAIN fired : fired[j] = "load"
    IN  [l EXCEPT !.fired = fired,
                  !.images = storeImages(@, l.assets, <<i>>),
                  !.allFulfilled = all,
                  !.job = all]

\* img.onerror of asset i: reject(new Error(...))
onerror(l, i) == rejectWith([l EXCEPT !.fired[i] = "error"], i)

\* the reaction of Promise.all(...).then: resolve(images)
allThen(l) == resolveWith([l EXCEPT !.job = FALSE], l.images)

\* Number::toString and parseFloat on the times stored: a time is written
\* as its decimal digits and read back digit by digit
RECURSIVE numberToString(_)
numberToString(n) ==
    IF n < 10 THEN <<n>> ELSE Append(numberToString(n \div 10), n % 10)

\* parseFloat(localStorage.getItem(storageKey)): NaN without an item
RECURSIVE parseDigits(_)
parseDigits(ds) ==
    IF ds = <<>> THEN 0
    ELSE 10 * parseDigits(SubSeq(ds, 1, Len(ds) - 1)) + ds[Len(ds)]
parseFloat(item) == IF item = <<>> THEN NaN ELSE parseDigits(item)

\* no item under the key, nothing on display
emptyStorage == [item |-> <<>>, shown |-> Infinity, first |-> <<>>, runs |-> <<>>]

\* a trackBestTime that stores the time of the latest run
trackBestTimeLatest(st, elapsedSeconds) ==
    [st EXCEPT !.item = IF elapsedSeconds # 0 THEN numberToString(elapsedSeconds) ELSE @,
               !.shown = IF elapsedSeconds # 0 THEN elapsedSeconds ELSE @,
               !.runs = Append(@, elapsedSeconds)]

\* trackBestTime; elapsedSeconds = 0 stands for the call without an argument
\* as well (both are falsy)
trackBestTime(st, elapsedSeconds) ==
    LET parsed == parseFloat(st.item)
        stored == IF parsed = NaN \/ parsed = 0 THEN Infinity ELSE parsed
        better == elapsedSeconds # 0 /\ (stored = Infinity \/ elapsedSeconds < stored)
        bestTime == IF better THEN elapsedSeconds ELSE stored
    IN  [st EXCEPT !.item = IF better THEN numberToString(bestTime) ELSE @,
                   !.shown = IF bestTime # Infinity THEN bestTime ELSE @,
                   !.runs = Append(@, elapsedSeconds)]

\* an evolve that computes the next target time from the level it leaves
evolveStaleTarget(w, rx, ry) ==
    LET level == w.cat.evolutionLevel + 1
        w1 == [w EXCEPT !.loopStopped = TRUE,
                        !.cat.evolutionLevel = level,
                        !.cat.evolutionTimer = 0,
                        !.cat.evolutionTargetTime = Sec(EVOLUTION_BASE_TIME) * level,
                        !.evolved = @ + 1]
        w2 == positionCouch(w1, rx, ry)
        w3 == IF level > FINAL_LEVEL
              THEN [w2 EXCEPT !.game.over = TRUE, !.canvasMode = "",
                              !.storage = trackBestTime(@, w.game.gameTime)]
              ELSE IF level > 1
                   THEN [w2 EXCEPT !.canvasMode = "storm"]
                   ELSE w2
    IN  [w3 EXCEPT !.sceneStopped = FALSE]

\* an evolve that starts the next level with an empty happiness meter
evolveResetsHappiness(w, rx, ry) ==
    LET level == w.cat.evolutionLevel + 1
        w1 == [w EXCEPT !.loopStopped = TRUE,
                        !.cat.evolutionLevel = level,
                        !.cat.evolutionTimer = 0,
                        !.cat.happinessMeter = 0,
                        !.cat.evolutionTargetTime = Sec(EVOLUTION_BASE_TIME) * (level + 1),
                        !.evolved = @ + 1]
        w2 == positionCouch(w1, rx, ry)
        w3 == IF level > FINAL_LEVEL
              THEN [w2 EXCEPT !.game.over = TRUE, !.canvasMode = "",
                              !.storage = trackBestTime(@, w.game.gameTime)]
              ELSE IF level > 1
                   THEN [w2 EXCEPT !.canvasMode = "storm"]
                   ELSE w2
    IN  [w3 EXCEPT !.sceneStopped = FALSE]

\* game.cat.evolve with the Math.random() results of its positionCouch call.
\* game.loop.stop() and renderScene's game.scene.start() set the two flags.
evolve(w, rx, ry) ==
    LET level == w.cat.evolutionLevel + 1
        w1 == [w EXCEPT !.loopStopped = TRUE,
                        !.cat.evolutionLevel = level,
                        !.cat.evolutionTimer = 0,
                        !.cat.evolutionTargetTime = Sec(EVOLUTION_BASE_TIME) * (level + 1),
                        !.evolved = @ + 1]
        w2 == positionCouch(w1, rx, ry)
        w3 == IF level > FINAL_LEVEL
              THEN [w2 EXCEPT !.game.over = TRUE, !.canvasMode = "",
                              !.storage = trackBestTime(@, w.game.gameTime)]
              ELSE IF level > 1
                   THEN [w2 EXCEPT !.canvasMode = "storm"]
                   ELSE w2
    IN  [w3 EXCEPT !.sceneStopped = FALSE]

----------------------------------------------------------------------------
(* game.cat.update(dt), dt = one step *)

\* BASE_ACTIVATION_DISTANCE, BASE_MAX_FOLLOW_DISTANCE, BASE_MIN_DISTANCE and
\* BASE_REENGAGEMENT_DISTANCE scaled by the zoom factor.  `distance` in the
\* code is measured between the halved coordinates, so it is half the length
\* of the vector from the pet to the pointer: distance < t is compared as
\* (squared length) < (2 t)^2.
activationDistance(z) == Px(3 * TILE_SIZE * z)
maxFollowDistance(z) == Px(6 * TILE_SIZE * z)
minDistance(z) == Px(TILE_SIZE * z) \div 8
reengagementDistance(z) == Px(TILE_SIZE * z)
minSpeed == Px(1) \div 2
twice(t) == 2 * t

\* an eating branch that does not cap the happiness at 100
updateEatingUncapped(w) ==
    LET timer == w.cat.eatingTimer + 1
        w1 == [w EXCEPT !.cat.eatingTimer = timer,
                        !.cat.happinessMeter = @ + 5]
    IN  IF timer >= Sec(EATING_DURATION)
        THEN [w1 EXCEPT !.cat.exhaustMeter = 0,
                        !.cat.state = AWAKE,
                        !.food.isVisible = FALSE]
        ELSE w1

\* an eating branch that leaves the food bowl shown when the meal is over
updateEatingKeepsFood(w) ==
    LET timer == w.cat.eatingTimer + 1
        w1 == [w EXCEPT !.cat.eatingTimer = timer,
                        !.cat.happinessMeter = Min(Hap(HAPPINESS_MAX), @ + 5)]
    IN  IF timer >= Sec(EATING_DURATION)
        THEN [w1 EXCEPT !.cat.exhaustMeter = 0,
                        !.cat.state = AWAKE]
        ELSE w1

\* the eating branch of update
updateEating(w) ==
    LET timer == w.cat.eatingTimer + 1
        w1 == [w EXCEPT !.cat.eatingTimer = timer,
                        !.cat.happinessMeter = Min(Hap(HAPPINESS_MAX), @ + 5)]
    IN  IF timer >= Sec(EATING_DURATION)
        THEN [w1 EXCEPT !.cat.exhaustMeter = 0,
                        !.cat.state = AWAKE,
                        !.food.isVisible = FALSE]
        ELSE w1

\* moveSpeed = minSpeed + (maxSpeed - minSpeed) * 0.25 of the seeking branch
seekSpeed == minSpeed + (Px(maxSpeed) - minSpeed) \div 4

\* a seeking-couch branch that keeps the pet a tile further from the right
\* and bottom edges than the couch can be
updateSeekingCouchNarrow(w) ==
    LET c == w.cat
        couchX == w.couch.x - c.x
        couchY == w.couch.y - c.y
        distSq == distanceSq(w.couch.x, w.couch.y, c.x, c.y)
        distanceToCouch == Sqrt(distSq)
        toX == IF distanceToCouch = 0 THEN 0 ELSE Quot(couchX * seekSpeed, distanceToCouch)
        toY == IF distanceToCouch = 0 THEN 0 ELSE Quot(couchY * seekSpeed, distanceToCouch)
        w1 == [w EXCEPT !.cat.happinessMeter = Max(0, @ - 1)]
    IN  IF distSq <= Px(COUCH_THRESHOLD) * Px(COUCH_THRESHOLD)
        THEN sleep(w1, TRUE)
        ELSE [w1 EXCEPT !.cat.x = clamp(c.x + toX, 0,
                                        canvasWidth(w.zoom) - 2 * scaledWidth(w.zoom)),
                        !.cat.y = clamp(c.y + toY, 0,
                                        canvasHeight(w.zoom) - 2 * scaledHeight(w.zoom))]

\* a seeking-couch branch in which the happiness does not decay on the way
updateSeekingCouchNoDecay(w) ==
    LET c == w.cat
        couchX == w.couch.x - c.x
        couchY == w.couch.y - c.y
        distSq == distanceSq(w.couch.x, w.couch.y, c.x, c.y)
        distanceToCouch == Sqrt(distSq)
        toX == IF distanceToCouch = 0 THEN 0 ELSE Quot(couchX * seekSpeed, distanceToCouch)
        toY == IF distanceToCouch = 0 THEN 0 ELSE Quot(couchY * seekSpeed, distanceToCouch)
        w1 == w
    IN  IF distSq <= Px(COUCH_THRESHOLD) * Px(COUCH_THRESHOLD)
        THEN sleep(w1, TRUE)
        ELSE [w1 EXCEPT !.cat.x = clamp(c.x + toX, 0, canvasWidth(w.zoom) - scaledWidth(w.zoom)),
                        !.cat.y = clamp(c.y + toY, 0, canvasHeight(w.zoom) - scaledHeight(w.zoom))]

\* the seeking-couch branch of update
updateSeekingCouch(w) ==
    LET c == w.cat
        couchX == w.couch.x - c.x
        couchY == w.couch.y - c.y
        distSq == distanceSq(w.couch.x, w.couch.y, c.x, c.y)
        distanceToCouch == Sqrt(distSq)
        toX == IF distanceToCouch = 0 THEN 0 ELSE Quot(couchX * seekSpeed, distanceToCouch)
        toY == IF distanceToCouch = 0 THEN 0 ELSE Quot(couchY * seekSpeed, distanceToCouch)
        w1 == [w EXCEPT !.cat.happinessMeter = Max(0, @ - 1)]
    IN  IF distSq <= Px(COUCH_THRESHOLD) * Px(COUCH_THRESHOLD)
        THEN sleep(w1, TRUE)
        ELSE [w1 EXCEPT !.cat.x = clamp(c.x + toX, 0, canvasWidth(w.zoom) - scaledWidth(w.zoom)),
                        !.cat.y = clamp(c.y + toY, 0, canvasHeight(w.zoom) - scaledHeight(w.zoom))]

\* an asleep branch in which the exhaustion decays while the pet sleeps
updateAsleepRecovering(w) ==
    LET timer == w.cat.sleepTimer + 1
        w1 == [w EXCEPT !.cat.sleepTimer = timer,
                        !.cat.happinessMeter = Max(0, @ - 1),
                        !.cat.exhaustMeter = recoveryRateCalculation(@, RECOVERY_RATE, 2)]
    IN  IF timer >= Sec(SLEEP_DURATION)
        THEN [w1 EXCEPT !.cat.state = AWAKE,
                        !.cat.sleepTimer = 0,
                        !.cat.happinessMeter = Max(0, (@ * 9) \div 10),
                        !.cat.exhaustMeter =
                            Exh(50) * (w.cat.evolutionLevel + (IF w.cat.bored THEN 2 ELSE 1)),
                        !.cat.bored = FALSE]
        ELSE w1

\* an asleep branch that takes the 10% off the happiness before the decay
\* of the waking update
updateAsleepEarlyCut(w) ==
    LET timer == w.cat.sleepTimer + 1
        w1 == [w EXCEPT !.cat.sleepTimer = timer]
    IN  IF timer >= Sec(SLEEP_DURATION)
        THEN [w1 EXCEPT !.cat.state = AWAKE,
                        !.cat.sleepTimer = 0,
                        !.cat.happinessMeter = Max(0, (@ * 9) \div 10 - 1),
                        !.cat.exhaustMeter =
                            Exh(50) * (w.cat.evolutionLevel + (IF w.cat.bored THEN 2 ELSE 1)),
                        !.cat.bored = FALSE]
        ELSE [w1 EXCEPT !.cat.happinessMeter = Max(0, @ - 1)]

\* an asleep branch that doubles the exhaustion of waking after a bored sleep
updateAsleepDoubling(w) ==
    LET timer == w.cat.sleepTimer + 1
        w1 == [w EXCEPT !.cat.sleepTimer = timer,
                        !.cat.happinessMeter = Max(0, @ - 1)]
    IN  IF timer >= Sec(SLEEP_DURATION)
        THEN [w1 EXCEPT !.cat.state = AWAKE,
                        !.cat.sleepTimer = 0,
                        !.cat.happinessMeter = Max(0, (@ * 9) \div 10),
                        !.cat.exhaustMeter =
                            Exh(50) * (w.cat.evolutionLevel + 1) * (IF w.cat.bored THEN 2 ELSE 1),
                        !.cat.bored = FALSE]
        ELSE w1

\* the asleep branch of update
updateAsleep(w) ==
    LET timer == w.cat.sleepTimer + 1
        w1 == [w EXCEPT !.cat.sleepTimer = timer,
                        !.cat.happinessMeter = Max(0, @ - 1)]
    IN  IF timer >= Sec(SLEEP_DURATION)
        THEN [w1 EXCEPT !.cat.state = AWAKE,
                        !.cat.sleepTimer = 0,
                        !.cat.happinessMeter = Max(0, (@ * 9) \div 10),
                        !.cat.exhaustMeter =
                            Exh(50) * (w.cat.evolutionLevel + (IF w.cat.bored THEN 2 ELSE 1)),
                        !.cat.bored = FALSE]
        ELSE w1

\* speed of the pointer-following movement for a squared pet-to-pointer
\* length distSq: minSpeed at or beyond the activation distance, otherwise
\* (minSpeed + (maxSpeed - minSpeed) * (1 - normalizedDistance^2)) * evolutionSpeedBoost
\* with evolutionSpeedBoost = 1 + evolutionLevel * 0.25
followSpeed(distSq, z, level) ==
    LET act == twice(activationDistance(z))
    IN  IF distSq < act * act
        THEN ((minSpeed + ((Px(maxSpeed) - minSpeed) * (act * act - distSq)) \div (act * act))
                 * (4 + level)) \div 4
        ELSE minSpeed

\* exhaust thresholds that put the pet to sleep on the spot at SLEEP_THRESHOLD
exhaustThresholdsSleepOnTheSpot(w, fx, fy) ==
    IF w.cat.exhaustMeter >= Exh(SLEEP_THRESHOLD)
    THEN sleep(w, FALSE)
    ELSE IF w.cat.exhaustMeter >= Exh(FOOD_EXHAUST_LEVEL) /\ ~w.food.isVisible
         THEN positionFood(w, fx, fy)
         ELSE IF w.cat.exhaustMeter >= Exh(EXHAUST_THRESHOLD) /\ w.cat.state # EXHAUSTED
              THEN [w EXCEPT !.cat.state = EXHAUSTED]
              ELSE w

\* the exhaust thresholds checked after a movement
exhaustThresholds(w, fx, fy) ==
    IF w.cat.exhaustMeter >= Exh(SLEEP_THRESHOLD)
    THEN startSeekingCouch(w)
    ELSE IF w.cat.exhaustMeter >= Exh(FOOD_EXHAUST_LEVEL) /\ ~w.food.isVisible
         THEN positionFood(w, fx, fy)
         ELSE IF w.cat.exhaustMeter >= Exh(EXHAUST_THRESHOLD) /\ w.cat.state # EXHAUSTED
              THEN [w EXCEPT !.cat.state = EXHAUSTED]
              ELSE w

\* the passive decay that ends update
passiveRecovery(w) ==
    IF w.cat.state # ASLEEP /\ w.cat.exhaustMeter > 0
    THEN [w EXCEPT !.cat.exhaustMeter = recoveryRateCalculation(@, RECOVERY_RATE, 2)]
    ELSE w

\* a movement that raises the happiness whether the pointer moved or not
updateMoveAlwaysGains(w, px, py, pointerMoved, isEngaged, fx, fy) ==
    LET c == w.cat
        z == w.zoom
        distSq == distanceSq(px, py, c.x, c.y)
        distance == Sqrt(distSq)
        speed == followSpeed(distSq, z, c.evolutionLevel)
        stepX == IF distance = 0 THEN 0 ELSE Quot((px - c.x) * speed, distance)
        stepY == IF distance = 0 THEN 0 ELSE Quot((py - c.y) * speed, distance)
        newX == clamp(c.x + stepX, 0, canvasWidth(z) - scaledWidth(z))
        newY == clamp(c.y + stepY, 0, canvasHeight(z) - scaledHeight(z))
        distanceMoved == calcDistance(newX, newY, c.x, c.y)
        \* EXHAUST_FACTOR = 0.1 exhaustion points per pixel
        gain == (distanceMoved * ExhScale) \div (10 * PosScale)
        w1 == [w EXCEPT !.cat.x = newX, !.cat.y = newY, !.moved = distanceMoved]
        w2 == IF c.state # IDLE /\ c.state # ASLEEP
              THEN exhaustThresholds(
                       [w1 EXCEPT !.cat.exhaustMeter = @ + gain,
                                  !.cat.happinessMeter =
                                      IF distanceMoved > 0
                                      THEN Min(Hap(HAPPINESS_MAX), @ + 6) ELSE @],
                       fx, fy)
              ELSE w1
    IN  passiveRecovery(IF isEngaged THEN w2 ELSE w)

\* the movement towards the pointer (the isEngaged block) and what follows it
updateMove(w, px, py, pointerMoved, isEngaged, fx, fy) ==
    LET c == w.cat
        z == w.zoom
        distSq == distanceSq(px, py, c.x, c.y)
        distance == Sqrt(distSq)
        speed == followSpeed(distSq, z, c.evolutionLevel)
        stepX == IF distance = 0 THEN 0 ELSE Quot((px - c.x) * speed, distance)
        stepY == IF distance = 0 THEN 0 ELSE Quot((py - c.y) * speed, distance)
        newX == clamp(c.x + stepX, 0, canvasWidth(z) - scaledWidth(z))
        newY == clamp(c.y + stepY, 0, canvasHeight(z) - scaledHeight(z))
        distanceMoved == calcDistance(newX, newY, c.x, c.y)
        \* EXHAUST_FACTOR = 0.1 exhaustion points per pixel
        gain == (distanceMoved * ExhScale) \div (10 * PosScale)
        w1 == [w EXCEPT !.cat.x = newX, !.cat.y = newY, !.moved = distanceMoved]
        w2 == IF c.state # IDLE /\ c.state # ASLEEP
              THEN exhaustThresholds(
                       [w1 EXCEPT !.cat.exhaustMeter = @ + gain,
                                  !.cat.happinessMeter =
                                      IF pointerMoved /\ distanceMoved > 0
                                      THEN Min(Hap(HAPPINESS_MAX), @ + 6) ELSE @],
                       fx, fy)
              ELSE w1
    IN  passiveRecovery(IF isEngaged THEN w2 ELSE w)

\* the Idle / Exhausted block when the pet does not re-engage
updateRest(w) ==
    LET c == w.cat
        state == IF c.idleTimer >= Sec(IDLE_TIMEOUT) \/ c.outsideRangeTimer >= Sec(IDLE_TIMEOUT)
                 THEN IDLE ELSE c.state
        exhaust == IF c.exhaustMeter > 0
                   THEN IF state = IDLE
                        THEN recoveryRateCalculation(c.exhaustMeter, RECOVERY_RATE, 3)
                        ELSE recoveryRateCalculation(c.exhaustMeter, RECOVERY_RATE, 2)
                   ELSE c.exhaustMeter
        happiness == IF state = IDLE THEN Max(0, c.happinessMeter - 2)
                     ELSE IF state = EXHAUSTED THEN Max(0, c.happinessMeter - 4)
                     ELSE c.happinessMeter
    IN  [w EXCEPT !.cat.state = state,
                  !.cat.exhaustMeter = exhaust,
                  !.cat.happinessMeter = happiness]

\* an update that clears the idle timer, too, while the pointer is within the
\* follow range
updateFollowClearsIdle(w, px, py, pointerMoved, fx, fy) ==
    LET c == w.cat
        z == w.zoom
        distSq == distanceSq(px, py, c.x, c.y)
        minD == twice(minDistance(z))
        maxD == twice(maxFollowDistance(z))
        reD == twice(reengagementDistance(z))
        isEngaged == distSq > minD * minD /\ distSq < maxD * maxD
                     /\ c.state # SEEKING_COUCH /\ c.state # EATING
        isOutsideRange == distSq >= maxD * maxD
        toFoodSq == distanceSq(w.food.x, w.food.y, c.x, c.y)
        \* Increment idle timers
        c1 == IF ~pointerMoved \/ isOutsideRange
              THEN [c EXCEPT !.idleTimer = IF isOutsideRange THEN @ + 1 ELSE 0,
                             !.outsideRangeTimer = IF isOutsideRange THEN @ + 1 ELSE 0]
              ELSE IF isEngaged THEN resetTimers(c) ELSE c
        w1 == [w EXCEPT !.cat = c1]
        idleNow == c1.idleTimer >= Sec(IDLE_TIMEOUT) \/ c1.outsideRangeTimer >= Sec(IDLE_TIMEOUT)
    IN  IF w.food.isVisible /\ c.state # SEEKING_COUCH
           /\ toFoodSq <= Px(FOOD_THRESHOLD) * Px(FOOD_THRESHOLD)
        THEN startEating(w)
        ELSE IF c1.state = EXHAUSTED \/ c1.state = IDLE
             THEN IF c1.state = IDLE /\ c1.idleTimer >= Sec(IDLE_TO_SLEEP_TIMEOUT)
                  THEN sleep([w1 EXCEPT !.cat.bored = TRUE], FALSE)
                  ELSE IF distSq < reD * reD /\ pointerMoved
                       THEN \* re-engage; timers are 0, so no idle promotion
                            updateMove([w1 EXCEPT !.cat = [resetTimers(@) EXCEPT !.state = AWAKE],
                                                  !.reengaged = TRUE],
                                       px, py, pointerMoved, isEngaged, fx, fy)
                       ELSE updateRest(w1)
             ELSE IF idleNow
                  THEN [w1 EXCEPT !.cat.state = IDLE]
                  ELSE updateMove(w1, px, py, pointerMoved, isEngaged, fx, fy)

\* a re-engagement that resets the timers and leaves the state as it is
updateFollowNoWake(w, px, py, pointerMoved, fx, fy) ==
    LET c == w.cat
        z == w.zoom
        distSq == distanceSq(px, py, c.x, c.y)
        minD == twice(minDistance(z))
        maxD == twice(maxFollowDistance(z))
        reD == twice(reengagementDistance(z))
        isEngaged == distSq > minD * minD /\ distSq < maxD * maxD
                     /\ c.state # SEEKING_COUCH /\ c.state # EATING
        isOutsideRange == distSq >= maxD * maxD
        toFoodSq == distanceSq(w.food.x, w.food.y, c.x, c.y)
        \* Increment idle timers
        c1 == IF ~pointerMoved \/ isOutsideRange
              THEN [c EXCEPT !.idleTimer = @ + 1,
                             !.outsideRangeTimer = IF isOutsideRange THEN @ + 1 ELSE 0]
              ELSE IF isEngaged THEN resetTimers(c) ELSE c
        w1 == [w EXCEPT !.cat = c1]
        idleNow == c1.idleTimer >= Sec(IDLE_TIMEOUT) \/ c1.outsideRangeTimer >= Sec(IDLE_TIMEOUT)
    IN  IF w.food.isVisible /\ c.state # SEEKING_COUCH
           /\ toFoodSq <= Px(FOOD_THRESHOLD) * Px(FOOD_THRESHOLD)
        THEN startEating(w)
        ELSE IF c1.state = EXHAUSTED \/ c1.state = IDLE
             THEN IF c1.state = IDLE /\ c1.idleTimer >= Sec(IDLE_TO_SLEEP_TIMEOUT)
                  THEN sleep([w1 EXCEPT !.cat.bored = TRUE], FALSE)
                  ELSE IF distSq < reD * reD /\ pointerMoved
                       THEN \* the timers are reset, the state stays
                            updateMove([w1 EXCEPT !.cat = resetTimers(@),
                                                  !.reengaged = TRUE],
                                       px, py, pointerMoved, isEngaged, fx, fy)
                       ELSE updateRest(w1)
             ELSE IF idleNow
                  THEN [w1 EXCEPT !.cat.state = IDLE]
                  ELSE updateMove(w1, px, py, pointerMoved, isEngaged, fx, fy)

\* update from the food check on: the pet is Awake, Idle or Exhausted
updateFollow(w, px, py, pointerMoved, fx, fy) ==
    LET c == w.cat
        z == w.zoom
        distSq == distanceSq(px, py, c.x, c.y)
        minD == twice(minDistance(z))
        maxD == twice(maxFollowDistance(z))
        reD == twice(reengagementDistance(z))
        isEngaged == distSq > minD * minD /\ distSq < maxD * maxD
                     /\ c.state # SEEKING_COUCH /\ c.state # EATING
        isOutsideRange == distSq >= maxD * maxD
        toFoodSq == distanceSq(w.food.x, w.food.y, c.x, c.y)
        \* Increment idle timers
        c1 == IF ~pointerMoved \/ isOutsideRange
              THEN [c EXCEPT !.idleTimer = @ + 1,
                             !.outsideRangeTimer = IF isOutsideRange THEN @ + 1 ELSE 0]
              ELSE IF isEngaged THEN resetTimers(c) ELSE c
        w1 == [w EXCEPT !.cat = c1]
        idleNow == c1.idleTimer >= Sec(IDLE_TIMEOUT) \/ c1.outsideRangeTimer >= Sec(IDLE_TIMEOUT)
    IN  IF w.food.isVisible /\ c.state # SEEKING_COUCH
           /\ toFoodSq <= Px(FOOD_THRESHOLD) * Px(FOOD_THRESHOLD)
        THEN startEating(w)
        ELSE IF c1.state = EXHAUSTED \/ c1.state = IDLE
             THEN IF c1.state = IDLE /\ c1.idleTimer >= Sec(IDLE_TO_SLEEP_TIMEOUT)
                  THEN sleep([w1 EXCEPT !.cat.bored = TRUE], FALSE)
                  ELSE IF distSq < reD * reD /\ pointerMoved
                       THEN \* re-engage; timers are 0, so no idle promotion
                            updateMove([w1 EXCEPT !.cat = [resetTimers(@) EXCEPT !.state = AWAKE],
                                                  !.reengaged = TRUE],
                                       px, py, pointerMoved, isEngaged, fx, fy)
                       ELSE updateRest(w1)
             ELSE IF idleNow
                  THEN [w1 EXCEPT !.cat.state = IDLE]
                  ELSE updateMove(w1, px, py, pointerMoved, isEngaged, fx, fy)

\* an evolution timer that runs whatever the happiness
evolutionTimerStepUnguarded(w, cx, cy) ==
    LET wt == [w EXCEPT !.cat.evolutionTimer = @ + 1]
    IN  IF wt.cat.evolutionTimer >= wt.cat.evolutionTargetTime
        THEN evolve(wt, cx, cy)
        ELSE wt

\* an evolution timer that has to pass its target
evolutionTimerStepLate(w, cx, cy) ==
    IF w.cat.happinessMeter >= Hap(HAPPINESS_MAX)
    THEN LET wt == [w EXCEPT !.cat.evolutionTimer = @ + 1]
         IN  IF wt.cat.evolutionTimer > wt.cat.evolutionTargetTime
             THEN evolve(wt, cx, cy)
             ELSE wt
    ELSE w

\* an evolution timer that starts over when the happiness is below 100%
evolutionTimerStepResetting(w, cx, cy) ==
    IF w.cat.happinessMeter >= Hap(HAPPINESS_MAX)
    THEN LET wt == [w EXCEPT !.cat.evolutionTimer = @ + 1]
         IN  IF wt.cat.evolutionTimer >= wt.cat.evolutionTargetTime
             THEN evolve(wt, cx, cy)
             ELSE wt
    ELSE [w EXCEPT !.cat.evolutionTimer = 0]

\* the evolution timer block of update: only increment when happiness is at
\* 100%, evolve when the timer reaches the target
evolutionTimerStep(w, cx, cy) ==
    IF w.cat.happinessMeter >= Hap(HAPPINESS_MAX)
    THEN LET wt == [w EXCEPT !.cat.evolutionTimer = @ + 1]
         IN  IF wt.cat.evolutionTimer >= wt.cat.evolutionTargetTime
             THEN evolve(wt, cx, cy)
             ELSE wt
    ELSE w

\* game.cat.update: pointer at <<px, py>>, draws = <<cx, cy, fx, fy>> the
\* Math.random() results used if evolve() repositions the couch (cx, cy) and
\* if positionFood places the food (fx, fy)
update(w, px, py, draws) ==
    LET c == w.cat
        pointerMoved == 2 * Abs(px - c.lastPointerX) > Px(1)
                        \/ 2 * Abs(py - c.lastPointerY) > Px(1)
        w0 == [w EXCEPT !.cat.lastPointerX = px, !.cat.lastPointerY = py]
        w1 == evolutionTimerStep(w0, draws[1], draws[2])
    IN  IF w1.cat.state = EATING THEN updateEating(w1)
        ELSE IF w1.cat.state = SEEKING_COUCH THEN updateSeekingCouch(w1)
        ELSE IF w1.cat.state = ASLEEP THEN updateAsleep(w1)
        ELSE updateFollow(w1, px, py, pointerMoved, draws[3], draws[4])

----------------------------------------------------------------------------
(* Inputs *)

\* zoom factors setZoomFactor computes from the window size
Zooms == {1, 2}
\* numerators of the Math.random() results
RandDraws == {0, RandDen - 1}
\* natural sizes of couch.webp and food.webp (the images are not part of the
\* sources; the sprites take their width and height from them)
CouchSizes == {[width |-> 64, height |-> 32]}
FoodSizes == {[width |-> 32, height |-> 32]}

\* where the pet is created: setPosition(canvas.width, TILE_SIZE * zoomFactor)
startX(z) == setPosition(canvasWidth(z), Px(TILE_SIZE * z), z)
startY(z) == setPosition(canvasHeight(z), Px(TILE_SIZE * z), z)

\* pointer positions the player visits, in pixels of the zoomed canvas
\* relative to the place where the pet is created: two close to it (inside the
\* re-engagement distance), one inside the activation distance, one beyond
\* it, one beyond the follow distance, and the position the pointer has
\* before the first mouse move (0, 0)
Pointers(z) ==
    { <<startX(z) + Px(40 * z), startY(z)>>,
      <<startX(z) - Px(30 * z), startY(z) + Px(20 * z)>>,
      <<startX(z) + Px(150 * z), startY(z) + Px(50 * z)>>,
      <<startX(z) + Px(250 * z), startY(z)>>,
      <<canvasWidth(z) - Px(1), canvasHeight(z) - Px(1)>>,
      <<0, 0>> }

----------------------------------------------------------------------------
(* Handlers *)

\* music.start / music.stop on the closure's player; stop() on a null player
\* throws a TypeError
musicStart(p) == "playing"
\* a stop() that throws whatever the player is
musicStopAlwaysThrows(p) == TRUE
musicStopThrows(p) == p = "none"

\* a reset to the values of the Sprite(...) call: happiness 0, every timer 0
newGameSessionStart(c) ==
    [c EXCEPT !.evolutionLevel = 0,
              !.evolutionTargetTime = Sec(EVOLUTION_BASE_TIME),
              !.evolutionTimer = 0,
              !.exhaustMeter = 0,
              !.happinessMeter = 0,
              !.idleTimer = 0, !.outsideRangeTimer = 0,
              !.sleepTimer = 0, !.eatingTimer = 0]

\* the fields the key handler resets for a new game
newGame(c) ==
    [c EXCEPT !.evolutionLevel = 0,
              !.evolutionTargetTime = Sec(EVOLUTION_BASE_TIME),
              !.evolutionTimer = 0,
              !.exhaustMeter = 0,
              !.happinessMeter = Hap(NEW_GAME_HAPPINESS)]

\* game.loop's update(dt): game.gameTime += dt; game.cat.update(dt).  (The
\* lightning effect of the storm level only switches the canvas class between
\* storm and lightning for rendering and is left out.)
CatUpdate(p) ==
    /\ \E cd \in (IF cat.happinessMeter >= Hap(HAPPINESS_MAX)
                     /\ cat.evolutionTimer + 1 >= cat.evolutionTargetTime
                  THEN RandDraws \X RandDraws ELSE {<<0, 0>>}) :
       \E fd \in (IF ~food.isVisible /\ cat.exhaustMeter + Exh(1) >= Exh(FOOD_EXHAUST_LEVEL)
                  THEN RandDraws \X RandDraws ELSE {<<0, 0>>}) :
       \E w \in {update([World EXCEPT !.game.gameTime = @ + 1],
                         p[1], p[2], <<cd[1], cd[2], fd[1], fd[2]>>)} :
              /\ cat' = w.cat
              /\ couch' = w.couch
              /\ food' = w.food
              /\ game' = w.game
              /\ loopStopped' = w.loopStopped
              /\ sceneStopped' = w.sceneStopped
              /\ canvasMode' = w.canvasMode
              /\ storage' = w.storage
              /\ last' = [act |-> "update", before |-> cat, food |-> food,
                          evolved |-> w.evolved, moved |-> w.moved, threw |-> FALSE,
                          reengaged |-> w.reengaged,
                          key |-> "", pausedAt |-> last.pausedAt]
    /\ ticks' = ticks + 1
    /\ UNCHANGED <<player, zoomFactor, resizes, origin, sampler, loader>>

\* an update of a frame whose place in the frame loop is not followed
UpdateStep(p) == CatUpdate(p) /\ UNCHANGED <<callbacks, pending, clock>>

\* a frame of the running game loop calls update; the player may have moved
\* the pointer to any of the positions
LoopUpdate ==
    /\ ~loopStopped
    /\ ticks < MaxTicks
    /\ \E p \in Pointers(zoomFactor) : UpdateStep(p)

\* the keyup handler with an Enter after a win that resets the game and
\* leaves the loop stopped
KeyHandlerResetOnly(key) ==
    LET enter == key = "Escape" \/ key = "Enter"
        starting == enter /\ loopStopped
        pausing == enter /\ ~loopStopped
        unmuting == key = "m" /\ game.muted
        muting == key = "m" /\ ~game.muted
        stopsMusic == (pausing /\ ~game.muted) \/ muting
        startsMusic == (starting /\ ~game.muted /\ ~game.musicPlaying)
                       \/ (unmuting /\ (loopStopped \/ ~game.musicPlaying))
        throws == stopsMusic /\ musicStopThrows(player)
    IN  /\ cat' = IF starting /\ game.over THEN newGame(cat) ELSE cat
        /\ game' = [game EXCEPT
                       !.gameTime = IF starting /\ game.over THEN 0 ELSE @,
                       !.over = IF starting THEN FALSE ELSE @,
                       !.muted = IF key = "m" THEN ~@ ELSE @,
                       !.musicPlaying = IF startsMusic THEN TRUE
                                        ELSE IF stopsMusic THEN FALSE ELSE @]
        /\ loopStopped' = IF starting /\ ~game.over THEN FALSE
                         ELSE IF pausing THEN TRUE ELSE loopStopped
        /\ player' = IF startsMusic THEN musicStart(player)
                     ELSE IF stopsMusic /\ ~throws THEN "none" ELSE player
        \* game.scene.stop() first; renderScene restarts the scene on a pause
        \* unless music.stop() threw before it
        /\ sceneStopped' = ~(pausing /\ ~throws)
        /\ last' = [act |-> "key", before |-> cat, food |-> food,
                    evolved |-> 0, moved |-> 0, threw |-> throws, reengaged |-> FALSE,
                    key |-> key,
                    pausedAt |-> IF pausing THEN <<cat, game.gameTime>>
                                 ELSE IF starting THEN <<>> ELSE last.pausedAt]
        /\ UNCHANGED <<couch, food, canvasMode, zoomFactor, ticks, resizes, origin, sampler,
                       storage, loader>>

\* the keyup handler without the game.scene.stop() it begins with
KeyHandlerKeepsScene(key) ==
    LET enter == key = "Escape" \/ key = "Enter"
        starting == enter /\ loopStopped
        pausing == enter /\ ~loopStopped
        unmuting == key = "m" /\ game.muted
        muting == key = "m" /\ ~game.muted
        stopsMusic == (pausing /\ ~game.muted) \/ muting
        startsMusic == (starting /\ ~game.muted /\ ~game.musicPlaying)
                       \/ (unmuting /\ (loopStopped \/ ~game.musicPlaying))
        throws == stopsMusic /\ musicStopThrows(player)
    IN  /\ cat' = IF starting /\ game.over THEN newGame(cat) ELSE cat
        /\ game' = [game EXCEPT
                       !.gameTime = IF starting /\ game.over THEN 0 ELSE @,
                       !.over = IF starting THEN FALSE ELSE @,
                       !.muted = IF key = "m" THEN ~@ ELSE @,
                       !.musicPlaying = IF startsMusic THEN TRUE
                                        ELSE IF stopsMusic THEN FALSE ELSE @]
        /\ loopStopped' = IF starting THEN FALSE ELSE IF pausing THEN TRUE ELSE loopStopped
        /\ player' = IF startsMusic THEN musicStart(player)
                     ELSE IF stopsMusic /\ ~throws THEN "none" ELSE player
        /\ sceneStopped' = IF pausing /\ ~throws THEN FALSE ELSE sceneStopped
        /\ last' = [act |-> "key", before |-> cat, food |-> food,
                    evolved |-> 0, moved |-> 0, threw |-> throws, reengaged |-> FALSE,
                    key |-> key,
                    pausedAt |-> IF pausing THEN <<cat, game.gameTime>>
                                 ELSE IF starting THEN <<>> ELSE last.pausedAt]
        /\ UNCHANGED <<couch, food, canvasMode, zoomFactor, ticks, resizes, origin, sampler,
                       storage, loader>>

\* the keyup handler, but for what game.loop.start() and game.loop.stop() do
\* to the animation-frame callbacks
KeyHandler(key) ==
    LET enter == key = "Escape" \/ key = "Enter"
        starting == enter /\ loopStopped
        pausing == enter /\ ~loopStopped
        unmuting == key = "m" /\ game.muted
        muting == key = "m" /\ ~game.muted
        stopsMusic == (pausing /\ ~game.muted) \/ muting
        startsMusic == (starting /\ ~game.muted /\ ~game.musicPlaying)
                       \/ (unmuting /\ (loopStopped \/ ~game.musicPlaying))
        throws == stopsMusic /\ musicStopThrows(player)
    IN  /\ cat' = IF starting /\ game.over THEN newGame(cat) ELSE cat
        /\ game' = [game EXCEPT
                       !.gameTime = IF starting /\ game.over THEN 0 ELSE @,
                       !.over = IF starting THEN FALSE ELSE @,
                       !.muted = IF key = "m" THEN ~@ ELSE @,
                       !.musicPlaying = IF startsMusic THEN TRUE
                                        ELSE IF stopsMusic THEN FALSE ELSE @]
        /\ loopStopped' = IF starting THEN FALSE ELSE IF pausing THEN TRUE ELSE loopStopped
        /\ player' = IF startsMusic THEN musicStart(player)
                     ELSE IF stopsMusic /\ ~throws THEN "none" ELSE player
        \* game.scene.stop() first; renderScene restarts the scene on a pause
        \* unless music.stop() threw before it
        /\ sceneStopped' = ~(pausing /\ ~throws)
        /\ last' = [act |-> "key", before |-> cat, food |-> food,
                    evolved |-> 0, moved |-> 0, threw |-> throws, reengaged |-> FALSE,
                    key |-> key,
                    pausedAt |-> IF pausing THEN <<cat, game.gameTime>>
                                 ELSE IF starting THEN <<>> ELSE last.pausedAt]
        /\ UNCHANGED <<couch, food, canvasMode, zoomFactor, ticks, resizes, origin, sampler,
                       storage, loader>>

\* the keyup handler where the frames are not followed: a frame runs while
\* the loop is not stopped
KeyUp(key) == KeyHandler(key) /\ UNCHANGED <<callbacks, pending, clock>>

\* the debounced resize callback: setZoomFactor, re-centre the pet,
\* positionCouch
Resize(z, rx, ry) ==
    /\ resizes < MaxResizes
    /\ \E w \in {positionCouch(
                     [World EXCEPT !.zoom = z,
                                   !.cat.x = setPosition(canvasWidth(z), Px(frameWidth), z),
                                   !.cat.y = setPosition(canvasHeight(z), Px(frameHeight), z)],
                     rx, ry)} :
           /\ cat' = w.cat
           /\ couch' = w.couch
           /\ zoomFactor' = z
    /\ resizes' = resizes + 1
    /\ last' = [act |-> "resize", before |-> cat, food |-> food,
                evolved |-> 0, moved |-> 0, threw |-> FALSE, reengaged |-> FALSE,
                key |-> "", pausedAt |-> last.pausedAt]
    /\ UNCHANGED <<food, game, loopStopped, sceneStopped, player, canvasMode, ticks, origin,
                   callbacks, pending, sampler, clock, storage, loader>>

----------------------------------------------------------------------------
(* Initial states *)

\* the pet as the Sprite(...) call creates it
newCat(z) ==
    [state |-> AWAKE, x |-> startX(z), y |-> startY(z),
     happinessMeter |-> 0, exhaustMeter |-> 0,
     idleTimer |-> 0, outsideRangeTimer |-> 0, sleepTimer |-> 0, eatingTimer |-> 0,
     evolutionTimer |-> 0, evolutionLevel |-> 0,
     evolutionTargetTime |-> Sec(EVOLUTION_BASE_TIME),
     bored |-> FALSE, lastPointerX |-> 0, lastPointerY |-> 0]

\* the world when the assets are loaded and the title scene is rendered
titleWorld(z, cs, fs, rx, ry) ==
    positionCouch(
        [cat |-> newCat(z),
         couch |-> [x |-> 0, y |-> 0, width |-> cs.width, height |-> cs.height],
         food |-> [x |-> 0, y |-> 0, isVisible |-> FALSE,
                   width |-> fs.width, height |-> fs.height],
         game |-> [gameTime |-> 0, over |-> FALSE, muted |-> FALSE, musicPlaying |-> FALSE],
         loopStopped |-> TRUE, sceneStopped |-> FALSE, canvasMode |-> "",
         zoom |-> z, evolved |-> 0, moved |-> 0, reengaged |-> FALSE,
         storage |-> emptyStorage],
        rx, ry)

\* the same world in the middle of a game: Enter was pressed on the title
\* scene, the loop runs, the music plays, the pointer was last seen close to
\* the pet, playing time has passed
playWorld(z, cs, fs, rx, ry) ==
    [titleWorld(z, cs, fs, rx, ry) EXCEPT
        !.loopStopped = FALSE, !.sceneStopped = TRUE,
        !.game.musicPlaying = TRUE, !.game.gameTime = Sec(90),
        !.cat.happinessMeter = Hap(50),
        !.cat.lastPointerX = startX(z) + Px(40 * z),
        !.cat.lastPointerY = startY(z)]

\* States of a game in progress from which the exploration starts, next to
\* the title screen: each is a state a play-through passes (the thresholds of
\* the meters and timers lie hundreds of updates apart, so the exploration
\* starts shortly before them).
Snapshots(z, cs, fs) ==
    LET pw == playWorld(z, cs, fs, 0, 0)
        maxX == canvasWidth(z) - scaledWidth(z)
        maxY == canvasHeight(z) - scaledHeight(z)
        withFood(w, dx, dy) ==
            [w EXCEPT !.food.x = w.cat.x + Px(dx), !.food.y = w.cat.y + Px(dy),
                      !.food.isVisible = TRUE]
    IN
    \* happiness saturated, the evolution timer two steps before its target
    { [pw EXCEPT !.cat.happinessMeter = Hap(HAPPINESS_MAX),
                 !.cat.exhaustMeter = Exh(100),
                 !.cat.evolutionLevel = l,
                 !.cat.evolutionTargetTime = Sec(EVOLUTION_BASE_TIME) * (l + 1),
                 !.cat.evolutionTimer = Sec(EVOLUTION_BASE_TIME) * (l + 1) - 2,
                 !.canvasMode = IF l = 2 THEN "storm" ELSE ""] : l \in 0..FINAL_LEVEL }
    \cup
    \* happiness just below saturation with much saturated time accrued
    { [pw EXCEPT !.cat.happinessMeter = Hap(HAPPINESS_MAX) - 3,
                 !.cat.evolutionTimer = Sec(EVOLUTION_BASE_TIME) - 1] }
    \cup
    \* chasing: exhaustion just below EXHAUST_THRESHOLD, below the level that
    \* places the food, below SLEEP_THRESHOLD
    { [pw EXCEPT !.cat.state = st, !.cat.exhaustMeter = e, !.cat.evolutionLevel = l,
                 !.cat.evolutionTargetTime = Sec(EVOLUTION_BASE_TIME) * (l + 1)] :
        st \in {AWAKE}, e \in {Exh(EXHAUST_THRESHOLD) - 100}, l \in {0} }
    \cup
    { [pw EXCEPT !.cat.state = EXHAUSTED, !.cat.exhaustMeter = Exh(FOOD_EXHAUST_LEVEL) - 100] }
    \cup
    { withFood([pw EXCEPT !.cat.state = EXHAUSTED,
                          !.cat.exhaustMeter = Exh(SLEEP_THRESHOLD) - 100], 200, 100) }
    \cup
    \* exhausted with the food bowl shown a little more than FOOD_THRESHOLD away
    { withFood([pw EXCEPT !.cat.state = EXHAUSTED,
                          !.cat.exhaustMeter = Exh(FOOD_EXHAUST_LEVEL) + Exh(20)], 36, 0) }
    \cup
    \* eating, two steps before EATING_DURATION
    { [startEating(withFood([pw EXCEPT !.cat.exhaustMeter = Exh(FOOD_EXHAUST_LEVEL) + Exh(20),
                                       !.cat.happinessMeter = h], 20, 10))
          EXCEPT !.cat.eatingTimer = Sec(EATING_DURATION) - 2] :
        h \in {Hap(50), Hap(HAPPINESS_MAX) - 7} }
    \cup
    \* seeking the couch, a few steps away from it
    { [pw EXCEPT !.cat.state = SEEKING_COUCH,
                 !.cat.exhaustMeter = Exh(SLEEP_THRESHOLD) - 10,
                 !.cat.x = pw.couch.x + Px(COUCH_THRESHOLD) + 2 * seekSpeed,
                 !.cat.y = pw.couch.y,
                 !.food.x = startX(z), !.food.y = startY(z), !.food.isVisible = TRUE] }
    \cup
    \* asleep on the couch, two steps before SLEEP_DURATION
    { [sleep([pw EXCEPT !.cat.exhaustMeter = Exh(SLEEP_THRESHOLD) - 10,
                        !.cat.evolutionLevel = l,
                        !.cat.evolutionTargetTime = Sec(EVOLUTION_BASE_TIME) * (l + 1),
                        !.canvasMode = IF l = 2 THEN "storm" ELSE ""], TRUE)
          EXCEPT !.cat.sleepTimer = Sec(SLEEP_DURATION) - 2,
                 !.cat.happinessMeter = h] :
        l \in {0, 2}, h \in {Hap(40), 1} }
    \cup
    \* asleep where it stood after a long idle time (bored)
    { [sleep([pw EXCEPT !.cat.exhaustMeter = Exh(20), !.cat.bored = TRUE], FALSE)
          EXCEPT !.cat.sleepTimer = Sec(SLEEP_DURATION) - 2,
                 !.cat.happinessMeter = Hap(10)] }
    \cup
    \* idle, two steps before IDLE_TO_SLEEP_TIMEOUT
    { [pw EXCEPT !.cat.state = IDLE, !.cat.idleTimer = Sec(IDLE_TO_SLEEP_TIMEOUT) - 2,
                 !.cat.exhaustMeter = e, !.cat.happinessMeter = Hap(30)] :
        e \in {0, Exh(EXHAUST_THRESHOLD) + Exh(10)} }
    \cup
    \* awake or exhausted with the pointer still, two steps before IDLE_TIMEOUT
    { [pw EXCEPT !.cat.state = st, !.cat.idleTimer = Sec(IDLE_TIMEOUT) - 2,
                 !.cat.exhaustMeter = Exh(EXHAUST_THRESHOLD) + Exh(10)] :
        st \in {AWAKE, EXHAUSTED} }
    \cup
    \* in the bottom right corner of the canvas, the pointer beyond the pet
    { [pw EXCEPT !.cat.x = maxX, !.cat.y = maxY,
                 !.cat.lastPointerX = canvasWidth(z) - Px(1),
                 !.cat.lastPointerY = canvasHeight(z) - Px(1)] }

InitWorlds ==
    { titleWorld(z, cs, fs, r[1], r[2]) :
        z \in Zooms, cs \in CouchSizes, fs \in FoodSizes, r \in RandDraws \X RandDraws }
    \cup
    UNION { Snapshots(MIN_ZOOM, cs, fs) : cs \in CouchSizes, fs \in FoodSizes }

\* positionFood is not running
samplerIdle == [attempts |-> 0, x |-> 0, y |-> 0, allClose |-> TRUE, at |-> "idle"]

\* no frame() is running; the pointer starts at (0, 0)
noFrame == [updates |-> 0, pointer |-> <<0, 0>>]

\* the loop as GameLoop(...) creates it: focused, accumulator = 0
newClock == [focused |-> TRUE, accumulator |-> 0, sinceLast |-> 0, elapsed |-> 0,
             updates |-> 0, frames |-> 0, at |-> "idle"]

\* the variables but callbacks take the fields of the world w
InitWorld(w) ==
    /\ pending = noFrame
    /\ clock = newClock
    /\ sampler = samplerIdle
    /\ cat = w.cat
    /\ couch = w.couch
    /\ food = w.food
    /\ game = w.game
    /\ loopStopped = w.loopStopped
    /\ sceneStopped = w.sceneStopped
    /\ canvasMode = w.canvasMode
    /\ zoomFactor = w.zoom
    /\ player = IF w.game.musicPlaying THEN "playing" ELSE "none"
    /\ ticks = 0
    /\ resizes = 0
    /\ last = [act |-> "init", before |-> w.cat, food |-> w.food,
               evolved |-> 0, moved |-> 0, threw |-> FALSE, reengaged |-> FALSE,
               key |-> "", pausedAt |-> <<>>]
    /\ origin = w.cat
    /\ storage = w.storage

\* a running loop has requested its next frame
InitAt(w) ==
    /\ InitWorld(w)
    /\ callbacks = [stored |-> ~w.loopStopped, loose |-> 0]
    /\ loader = loaded(GameAssets)

Init == \E w \in InitWorlds : InitAt(w)

PlayKeys == {"Enter"}

Next ==
    \/ LoopUpdate
    \/ \E key \in PlayKeys : KeyUp(key)

Spec == Init /\ [][Next]_vars

----------------------------------------------------------------------------
(* The phases that own the update: eating, seeking the couch, sleeping.     *)
(* They last hundreds of updates, none of which reads the pointer, so they  *)
(* are explored from their first update to their last.                      *)

\* the pointer positions visited during a phase
PhasePointers(z) ==
    { <<startX(z) + Px(40 * z), startY(z)>>,
      <<startX(z) - Px(30 * z), startY(z) + Px(20 * z)>> }

PhaseWorlds ==
    LET pw == playWorld(MIN_ZOOM, CHOOSE cs \in CouchSizes : TRUE,
                        CHOOSE fs \in FoodSizes : TRUE, 0, 0)
        level(w, l) ==
            [w EXCEPT !.cat.evolutionLevel = l,
                      !.cat.evolutionTargetTime = Sec(EVOLUTION_BASE_TIME) * (l + 1),
                      !.canvasMode = IF l = 2 THEN "storm" ELSE ""]
    IN
    \* startEating has just run: the pet stands on the food it reached
    { startEating([pw EXCEPT !.cat.state = EXHAUSTED,
                             !.cat.exhaustMeter = Exh(FOOD_EXHAUST_LEVEL) + Exh(20),
                             !.cat.happinessMeter = h[1],
                             !.cat.evolutionTimer = h[2],
                             !.food.x = pw.cat.x + Px(20), !.food.y = pw.cat.y + Px(10),
                             !.food.isVisible = TRUE]) :
        h \in { <<Hap(50), 0>>,
                \* happiness reaches 100 and the pet evolves while it eats
                <<Hap(98), Sec(EVOLUTION_BASE_TIME) - Sec(1)>> } }
    \cup
    \* sleep() has just run at the couch
    { sleep(level([pw EXCEPT !.cat.state = SEEKING_COUCH,
                             !.cat.exhaustMeter = Exh(SLEEP_THRESHOLD) - 10,
                             !.cat.happinessMeter = h], l), TRUE) :
        h \in {Hap(40), Hap(5), Hap(HAPPINESS_MAX) - 1}, l \in 0..FINAL_LEVEL }
    \cup
    \* sleep(false) has just run after IDLE_TO_SLEEP_TIMEOUT of idleness
    { sleep(level([pw EXCEPT !.cat.state = IDLE, !.cat.bored = TRUE,
                             !.cat.exhaustMeter = Exh(20),
                             !.cat.happinessMeter = Hap(30)], l), FALSE) :
        l \in {0, FINAL_LEVEL} }

InitPhase == \E w \in PhaseWorlds : InitAt(w)

PhaseUpdate ==
    /\ ~loopStopped
    /\ cat.state \in {EATING, SEEKING_COUCH, ASLEEP}
    /\ \E p \in PhasePointers(zoomFactor) : UpdateStep(p)

NextPhase ==
    \/ PhaseUpdate
    \/ \E key \in PlayKeys : KeyUp(key)

SpecPhase == InitPhase /\ [][NextPhase]_vars

----------------------------------------------------------------------------
(* The idle timers: the player rests the pointer on the pet, close to it or *)
(* far away from it.                                                        *)

\* number of updates of such a run
MaxTimerTicks == 5

\* the pointer on the pet (inside the minimum distance), close to it (inside
\* the re-engagement distance) and in the far corner of the canvas
TimerPointers(c, z) ==
    { <<c.x + Px(2 * z), c.y>>,
      <<c.x + Px(40 * z), c.y>>,
      <<canvasWidth(z) - Px(1), canvasHeight(z) - Px(1)>> }

\* a game in progress: the pet is awake, or exhausted or idle some time after
\* a meal and after some time at full happiness
TimerWorlds ==
    LET pw == playWorld(MIN_ZOOM, CHOOSE cs \in CouchSizes : TRUE,
                        CHOOSE fs \in FoodSizes : TRUE, 0, 0)
        later == [pw EXCEPT !.cat.eatingTimer = Sec(EATING_DURATION),
                            !.cat.evolutionTimer = Sec(5),
                            !.cat.happinessMeter = Hap(60),
                            !.cat.exhaustMeter = Exh(EXHAUST_THRESHOLD) + Exh(10)]
    IN  { pw,
          [later EXCEPT !.cat.state = EXHAUSTED],
          [later EXCEPT !.cat.state = IDLE, !.cat.idleTimer = Sec(2)] }

InitTimers == \E w \in TimerWorlds : InitAt(w)

TimerUpdate ==
    /\ ~loopStopped
    /\ ticks < MaxTimerTicks
    /\ \E p \in TimerPointers(cat, zoomFactor) : UpdateStep(p)

NextTimers == TimerUpdate

SpecTimers == InitTimers /\ [][NextTimers]_vars

----------------------------------------------------------------------------
(* A chase across the canvas: the player keeps the pointer a little ahead   *)
(* of the pet, to its right, and the window may be resized.                 *)

\* number of updates of a chase
MaxChaseTicks == 90

\* the pointer 60 pixels to the right of the pet, inside the canvas, and one
\* or two pixels below it in turn, so that it moves in every update
lead(c, z, t) == <<Min(c.x + Px(60), canvasWidth(z) - Px(1)), c.y + Px(1 + (t % 2))>>

\* a large window (zoom 2); the pet is exhausted, the food bowl is shown
ChaseWorlds ==
    { [playWorld(2, cs, fs, 0, 0) EXCEPT
          !.cat.state = EXHAUSTED,
          !.cat.exhaustMeter = Exh(FOOD_EXHAUST_LEVEL) + Exh(7),
          !.food.x = Px(690), !.food.y = Px(150), !.food.isVisible = TRUE] :
        cs \in CouchSizes, fs \in FoodSizes }

InitChase == \E w \in ChaseWorlds : InitAt(w)

ChaseUpdate ==
    /\ ~loopStopped
    /\ ticks < MaxChaseTicks
    /\ UpdateStep(lead(cat, zoomFactor, ticks))

NextChase ==
    \/ ChaseUpdate
    \/ \E z \in Zooms, rx \in RandDraws, ry \in RandDraws : Resize(z, rx, ry)

SpecChase == InitChase /\ [][NextChase]_vars

----------------------------------------------------------------------------
(* The frames of game.loop: requestAnimationFrame callbacks, the updates of *)
(* one frame, and the keys released between frames.                         *)

\* most update calls of one frame (accumulator / delta; dt is at most 1 s)
MaxFrameUpdates == 2
\* most callbacks requested and not run besides the one rAF names
MaxCallbacks == 2
\* number of updates followed
MaxFrameTicks == 4

FramePointers(z) ==
    { <<startX(z) + Px(40 * z), startY(z)>>,
      <<startX(z) - Px(30 * z), startY(z) + Px(20 * z)>> }

\* loop.start(): requestAnimationFrame(frame), the id is dropped
loopStart(cb) == [cb EXCEPT !.loose = @ + 1]
\* loop.stop(): cancelAnimationFrame(rAF) cancels the callback rAF names, if
\* it has not run yet
loopStop(cb) == [cb EXCEPT !.stored = FALSE]

\* the title screen; a game at level 2 with the happiness saturated, one
\* update before the third evolution; and a game that was won while a
\* callback requested by start() and never cancelled keeps the frames going,
\* the happiness kept saturated, one update before the target of level 3
FrameWorlds ==
    LET cs == CHOOSE c \in CouchSizes : TRUE
        fs == CHOOSE f \in FoodSizes : TRUE
        pw == playWorld(MIN_ZOOM, cs, fs, 0, 0)
        sat(l) == [pw EXCEPT !.cat.happinessMeter = Hap(HAPPINESS_MAX),
                             !.cat.exhaustMeter = Exh(100),
                             !.cat.evolutionLevel = l,
                             !.cat.evolutionTargetTime = Sec(EVOLUTION_BASE_TIME) * (l + 1),
                             !.cat.evolutionTimer = Sec(EVOLUTION_BASE_TIME) * (l + 1) - 1]
    IN  { [world |-> titleWorld(MIN_ZOOM, cs, fs, 0, 0), loose |-> 0],
          [world |-> [sat(FINAL_LEVEL) EXCEPT !.canvasMode = "storm"], loose |-> 0],
          [world |-> [sat(FINAL_LEVEL + 1) EXCEPT !.game.over = TRUE,
                                                  !.loopStopped = TRUE,
                                                  !.canvasMode = ""],
           loose |-> 1] }

InitFrame ==
    \E f \in FrameWorlds :
        /\ InitWorld(f.world)
        /\ callbacks = [stored |-> ~f.world.loopStopped, loose |-> f.loose]
        /\ loader = loaded(GameAssets)

\* a key is released between two frames
FrameKeyUp(key) ==
    /\ pending.updates = 0
    /\ KeyHandler(key)
    /\ pending' = pending
    /\ clock' = clock
    /\ LET enter == key = "Escape" \/ key = "Enter"
       IN  IF enter /\ loopStopped
           THEN callbacks.loose < MaxCallbacks /\ callbacks' = loopStart(callbacks)
           ELSE IF enter THEN callbacks' = loopStop(callbacks)
           ELSE callbacks' = callbacks

\* a requested callback runs frame(): it requests the next one and keeps its
\* id in rAF (the id rAF held before is dropped), then makes n update calls
FrameFire ==
    /\ pending.updates = 0
    /\ \E viaStored \in BOOLEAN :
        /\ IF viaStored THEN callbacks.stored ELSE callbacks.loose > 0
        /\ callbacks' = [stored |-> TRUE,
                         loose |-> IF viaStored THEN callbacks.loose
                                   ELSE callbacks.loose - 1
                                        + (IF callbacks.stored THEN 1 ELSE 0)]
    /\ \E n \in 0..MaxFrameUpdates, p \in FramePointers(zoomFactor) :
        pending' = [updates |-> n, pointer |-> p]
    /\ last' = [act |-> "frame", before |-> cat, food |-> food,
                evolved |-> 0, moved |-> 0, threw |-> FALSE, reengaged |-> FALSE,
                key |-> "", pausedAt |-> last.pausedAt]
    /\ UNCHANGED <<cat, couch, food, game, loopStopped, sceneStopped, player, canvasMode,
                   zoomFactor, ticks, resizes, origin, sampler, clock, storage, loader>>

\* one pass of the while loop of frame(): loop.update(step); evolve() calls
\* loop.stop() from inside it
FrameUpdate ==
    /\ pending.updates > 0
    /\ ticks < MaxFrameTicks
    /\ CatUpdate(pending.pointer)
    /\ pending' = [pending EXCEPT !.updates = @ - 1]
    /\ callbacks' = IF last'.evolved > 0 THEN loopStop(callbacks) ELSE callbacks
    /\ clock' = clock

NextFrame ==
    \/ \E key \in {"Enter", "m"} : FrameKeyUp(key)
    \/ FrameFire
    \/ FrameUpdate

SpecFrame == InitFrame /\ [][NextFrame]_vars

----------------------------------------------------------------------------
(* update(dt) called with any dt on an eating pet: the game loop only ever  *)
(* passes step = 1 / fps, update itself takes whatever it is given.         *)

\* number of calls followed
MaxDtTicks == 3

\* dt in ticks of 1/60 s: a second back, a tick back, none, a tick forward
DtValues == {-Sec(1), -1, 0, 1}

\* the evolution timer block with dt as given
evolutionTimerStepBy(w, dt, cx, cy) ==
    IF w.cat.happinessMeter >= Hap(HAPPINESS_MAX)
    THEN LET wt == [w EXCEPT !.cat.evolutionTimer = @ + dt]
         IN  IF wt.cat.evolutionTimer >= wt.cat.evolutionTargetTime
             THEN evolve(wt, cx, cy)
             ELSE wt
    ELSE w

\* the eating branch with dt as given: eatingTimer += dt,
\* happinessMeter = Math.min(100, happinessMeter + 5 * dt)
updateEatingBy(w, dt) ==
    LET timer == w.cat.eatingTimer + dt
        w1 == [w EXCEPT !.cat.eatingTimer = timer,
                        !.cat.happinessMeter = Min(Hap(HAPPINESS_MAX), @ + 5 * dt)]
    IN  IF timer >= Sec(EATING_DURATION)
        THEN [w1 EXCEPT !.cat.exhaustMeter = 0,
                        !.cat.state = AWAKE,
                        !.food.isVisible = FALSE]
        ELSE w1

\* eating pets at the start of a meal and a second into it, with little,
\* middling and saturated happiness
DtWorlds ==
    LET pw == playWorld(MIN_ZOOM, CHOOSE cs \in CouchSizes : TRUE,
                        CHOOSE fs \in FoodSizes : TRUE, 0, 0)
        fed == [pw EXCEPT !.food.x = pw.cat.x + Px(20), !.food.y = pw.cat.y + Px(10),
                          !.food.isVisible = TRUE,
                          !.cat.exhaustMeter = Exh(FOOD_EXHAUST_LEVEL) + Exh(20)]
    IN  { [startEating([fed EXCEPT !.cat.happinessMeter = h, !.cat.evolutionTimer = e])
              EXCEPT !.cat.eatingTimer = t] :
            h \in {2, Hap(50), Hap(HAPPINESS_MAX)}, e \in {0, Sec(5)}, t \in {0, Sec(1)} }

InitDt == \E w \in DtWorlds : InitAt(w)

\* game.loop.update(dt) on an eating pet, the pointer where it was:
\* game.gameTime += dt; game.cat.update(dt)
TickWith(dt) ==
    /\ cat.state = EATING
    /\ ticks < MaxDtTicks
    /\ \E w \in {updateEatingBy(
                     evolutionTimerStepBy([World EXCEPT !.game.gameTime = @ + dt], dt, 0, 0),
                     dt)} :
          /\ cat' = w.cat
          /\ couch' = w.couch
          /\ food' = w.food
          /\ game' = w.game
          /\ loopStopped' = w.loopStopped
          /\ sceneStopped' = w.sceneStopped
          /\ canvasMode' = w.canvasMode
          /\ last' = [act |-> "update", before |-> cat, food |-> food,
                      evolved |-> w.evolved, moved |-> 0, threw |-> FALSE,
                      reengaged |-> FALSE,
                      key |-> "", pausedAt |-> last.pausedAt]
    /\ ticks' = ticks + 1
    /\ UNCHANGED <<player, zoomFactor, resizes, origin, callbacks, pending, sampler, clock, storage, loader>>

NextDt == \E dt \in DtValues : TickWith(dt)

SpecDt == InitDt /\ [][NextDt]_vars

----------------------------------------------------------------------------
(* positionFood step by step: every pass of its do-while loop is a step.   *)

\* numerators of the Math.random() results of the loop: at the low end of
\* the range, next to it, at the high end
FoodDraws == {0, 1, RandDen - 1}

\* minDistance of positionFood: TILE_SIZE * 4, not scaled by the zoom factor
foodMinDistance == Px(TILE_SIZE * 4)

\* toCouch < minDistance for a draw at <<x, y>>
tooClose(x, y, c) == distanceSq(x, y, c.x, c.y) < foodMinDistance * foodMinDistance

\* the loop leaves after one draw more than FOOD_ATTEMPTS
sampleStepOneMore(sm, w, rx, ry) ==
    LET drawn == positionFood(w, rx, ry).food
        close == tooClose(drawn.x, drawn.y, w.couch)
        n == sm.attempts + 1
    IN  [attempts |-> n, x |-> drawn.x, y |-> drawn.y,
         allClose |-> sm.allClose /\ close,
         at |-> IF close /\ n <= FOOD_ATTEMPTS THEN "loop" ELSE "set"]

\* one pass of the do-while loop: draw foodX, foodY, compute toCouch, count
\* the attempt, test toCouch < minDistance && attempts < 20
sampleStep(sm, w, rx, ry) ==
    LET drawn == positionFood(w, rx, ry).food
        close == tooClose(drawn.x, drawn.y, w.couch)
        n == sm.attempts + 1
    IN  [attempts |-> n, x |-> drawn.x, y |-> drawn.y,
         allClose |-> sm.allClose /\ close,
         at |-> IF close /\ n < FOOD_ATTEMPTS THEN "loop" ELSE "set"]

\* the title screen at every zoom factor and couch position, the food hidden
FoodWorlds ==
    { titleWorld(z, cs, fs, r[1], r[2]) :
        z \in Zooms, cs \in CouchSizes, fs \in FoodSizes, r \in RandDraws \X RandDraws }

InitFood == \E w \in FoodWorlds : InitAt(w)

\* positionFood is entered: attempts = 0
BeginPositionFood ==
    /\ sampler.at = "idle"
    /\ sampler' = [samplerIdle EXCEPT !.at = "loop"]
    /\ UNCHANGED <<cat, couch, food, game, loopStopped, sceneStopped, player, canvasMode,
                   zoomFactor, ticks, resizes, last, origin, callbacks, pending, clock, storage, loader>>

\* a pass of the loop
DrawFood ==
    /\ sampler.at = "loop"
    /\ \E rx \in FoodDraws, ry \in FoodDraws : sampler' = sampleStep(sampler, World, rx, ry)
    /\ UNCHANGED <<cat, couch, food, game, loopStopped, sceneStopped, player, canvasMode,
                   zoomFactor, ticks, resizes, last, origin, callbacks, pending, clock, storage, loader>>

\* after the loop: game.food.x = foodX; game.food.y = foodY; isVisible = true
SetFood ==
    /\ sampler.at = "set"
    /\ food' = [food EXCEPT !.x = sampler.x, !.y = sampler.y, !.isVisible = TRUE]
    /\ sampler' = [sampler EXCEPT !.at = "done"]
    /\ UNCHANGED <<cat, couch, game, loopStopped, sceneStopped, player, canvasMode,
                   zoomFactor, ticks, resizes, last, origin, callbacks, pending, clock, storage, loader>>

NextFood ==
    \/ BeginPositionFood
    \/ DrawFood
    \/ SetFood

SpecFood == InitFood /\ [][NextFood]_vars

----------------------------------------------------------------------------
(* The keys: Enter, Escape and M released in any order on the title screen *)
(* and during a game, with evolutions stopping the loop in between.         *)

\* number of updates followed
MaxKeyTicks == 3

AllKeys == {"Enter", "Escape", "m"}

KeyPointers(z) == { <<startX(z) + Px(40 * z), startY(z)>> }

\* the title screen, and games with the happiness saturated one update
\* before the second and the third evolution
KeyWorlds ==
    LET cs == CHOOSE c \in CouchSizes : TRUE
        fs == CHOOSE f \in FoodSizes : TRUE
        pw == playWorld(MIN_ZOOM, cs, fs, 0, 0)
    IN  { titleWorld(MIN_ZOOM, cs, fs, 0, 0) }
        \cup
        { [pw EXCEPT !.cat.happinessMeter = Hap(HAPPINESS_MAX),
                     !.cat.exhaustMeter = Exh(100),
                     !.cat.evolutionLevel = l,
                     !.cat.evolutionTargetTime = Sec(EVOLUTION_BASE_TIME) * (l + 1),
                     !.cat.evolutionTimer = Sec(EVOLUTION_BASE_TIME) * (l + 1) - 1,
                     !.canvasMode = IF l = 2 THEN "storm" ELSE ""] : l \in {1, FINAL_LEVEL} }

InitKeys == \E w \in KeyWorlds : InitAt(w)

KeysUpdate ==
    /\ ~loopStopped
    /\ ticks < MaxKeyTicks
    /\ \E p \in KeyPointers(zoomFactor) : UpdateStep(p)

NextKeys ==
    \/ KeysUpdate
    \/ \E key \in AllKeys : KeyUp(key)

SpecKeys == InitKeys /\ [][NextKeys]_vars

----------------------------------------------------------------------------
(* The timing of frame(): the time between frames is accumulated and paid   *)
(* out in updates of one fixed step.                                        *)

\* time units per millisecond: the precision to which times are kept
ClockScale == 1000
\* number of frame() runs followed
MaxClockFrames == 3

\* 1e3 ms per second, and the longest dt frame() accepts
MS_PER_SECOND == 1000
MAX_FRAME_MS == 1000

Ms(n) == n * ClockScale

\* delta = 1e3 / fps, rounded to the nearest value the precision allows (the
\* double 1000 / 60 is rounded as well: it is a little above 16.666...)
delta == (2 * Ms(MS_PER_SECOND) + Fps) \div (2 * Fps)

\* the time between two animation frames: a little less and a little more
\* than delta, three times 1000 / 60 ms, the longest accepted, one too long
ClockGaps == {Ms(16), Ms(17), Ms(50), Ms(MAX_FRAME_MS), Ms(MAX_FRAME_MS) + 1}

\* a pass of the while loop that forgets the rest of the accumulator
afterUpdateDropsRest(c) == [c EXCEPT !.accumulator = 0, !.updates = @ + 1]

\* a pass of the while loop, after loop.update(step): accumulator -= delta
afterUpdate(c) == [c EXCEPT !.accumulator = @ - delta, !.updates = @ + 1]

ClockWorlds ==
    { playWorld(MIN_ZOOM, CHOOSE cs \in CouchSizes : TRUE,
                CHOOSE fs \in FoodSizes : TRUE, 0, 0) }

InitClock == \E w \in ClockWorlds : InitAt(w)

\* the window loses or regains the focus
FocusChange ==
    /\ clock.at = "idle"
    /\ clock' = [clock EXCEPT !.focused = ~@]
    /\ UNCHANGED <<cat, couch, food, game, loopStopped, sceneStopped, player, canvasMode,
                   zoomFactor, ticks, resizes, last, origin, callbacks, pending, sampler, storage, loader>>

\* frame() up to its while loop, gap after the frame before it: nothing if
\* the window is not focused; dt = now - last; last = now; nothing more if
\* dt > 1e3; accumulator += dt
ClockFrame(gap) ==
    /\ clock.at = "idle"
    /\ ~loopStopped
    /\ clock.frames < MaxClockFrames
    /\ LET dt == clock.sinceLast + gap
           c == [clock EXCEPT !.frames = @ + 1]
       IN  clock' = IF ~clock.focused THEN [c EXCEPT !.sinceLast = dt]
                    ELSE IF dt > Ms(MAX_FRAME_MS) THEN [c EXCEPT !.sinceLast = 0]
                    ELSE [c EXCEPT !.sinceLast = 0,
                                   !.accumulator = @ + dt,
                                   !.elapsed = @ + dt,
                                   !.at = "loop"]
    /\ UNCHANGED <<cat, couch, food, game, loopStopped, sceneStopped, player, canvasMode,
                   zoomFactor, ticks, resizes, last, origin, callbacks, pending, sampler, storage, loader>>

\* a pass of the while loop: loop.update(step), accumulator -= delta
ClockUpdate ==
    /\ clock.at = "loop"
    /\ clock.accumulator >= delta
    /\ CatUpdate(<<cat.lastPointerX, cat.lastPointerY>>)
    /\ clock' = afterUpdate(clock)
    /\ UNCHANGED <<callbacks, pending>>

\* the while loop ends: clear and render
ClockRender ==
    /\ clock.at = "loop"
    /\ clock.accumulator < delta
    /\ clock' = [clock EXCEPT !.at = "idle"]
    /\ UNCHANGED <<cat, couch, food, game, loopStopped, sceneStopped, player, canvasMode,
                   zoomFactor, ticks, resizes, last, origin, callbacks, pending, sampler, storage, loader>>

NextClock ==
    \/ FocusChange
    \/ \E gap \in ClockGaps : ClockFrame(gap)
    \/ ClockUpdate
    \/ ClockRender

SpecClock == InitClock /\ [][NextClock]_vars

----------------------------------------------------------------------------
(* The pointer at rest for good: updates go on with the pointer where the   *)
(* last update saw it, until the pet is asleep.                             *)

\* number of updates followed: more than EATING_DURATION + IDLE_TIMEOUT +
\* IDLE_TO_SLEEP_TIMEOUT seconds
MaxStillTicks == 900

\* the pet Awake with the pointer on it, near it, farther away and out of
\* range; Exhausted and far from the couch, shortly before SLEEP_THRESHOLD
\* and before the level that places the food; Exhausted beside the food;
\* Idle; Eating; SeekingCouch
StillWorlds ==
    LET pw == playWorld(MIN_ZOOM, CHOOSE cs \in CouchSizes : TRUE,
                        CHOOSE fs \in FoodSizes : TRUE, 0, 0)
        at(w, dx, dy) == [w EXCEPT !.cat.lastPointerX = w.cat.x + Px(dx),
                                   !.cat.lastPointerY = w.cat.y + Px(dy)]
        withFood(w, dx, dy) ==
            [w EXCEPT !.food.x = w.cat.x + Px(dx), !.food.y = w.cat.y + Px(dy),
                      !.food.isVisible = TRUE]
    IN  { at(pw, d[1], d[2]) : d \in {<<2, 0>>, <<40, 0>>, <<250, 100>>, <<367, 175>>} }
        \cup
        { at([pw EXCEPT !.cat.state = EXHAUSTED, !.cat.exhaustMeter = e], 150, 50) :
            e \in {Exh(SLEEP_THRESHOLD) - 100, Exh(FOOD_EXHAUST_LEVEL) - 100} }
        \cup
        { at(withFood([pw EXCEPT !.cat.state = EXHAUSTED,
                                 !.cat.exhaustMeter = Exh(FOOD_EXHAUST_LEVEL) + Exh(20)],
                      36, 0), 40, 0) }
        \cup
        { at([pw EXCEPT !.cat.state = IDLE, !.cat.idleTimer = Sec(2),
                        !.cat.exhaustMeter = Exh(EXHAUST_THRESHOLD) + Exh(10)], 40, 0) }
        \cup
        { startEating(withFood([pw EXCEPT !.cat.exhaustMeter = Exh(FOOD_EXHAUST_LEVEL) + Exh(20)],
                               20, 10)) }
        \cup
        { [positionCouch(pw, r, r) EXCEPT !.cat.state = SEEKING_COUCH,
                                          !.cat.exhaustMeter = Exh(SLEEP_THRESHOLD) + Exh(1)] :
            r \in {0, RandDen - 1} }

InitStill == \E w \in StillWorlds : InitAt(w)

\* an update with the pointer where the update before saw it
StillUpdate ==
    /\ ~loopStopped
    /\ cat.state # ASLEEP
    /\ ticks < MaxStillTicks
    /\ UpdateStep(<<cat.lastPointerX, cat.lastPointerY>>)

NextStill == StillUpdate

\* the step every update takes, and only an update: the count of updates
\* delivered goes up by one
StillTick ==
    /\ ~loopStopped
    /\ cat.state # ASLEEP
    /\ ticks < MaxStillTicks
    /\ ticks' = ticks + 1

\* updates keep being delivered
SpecStill == InitStill /\ [][NextStill]_vars /\ WF_ticks(StillTick)

----------------------------------------------------------------------------
(* The way to the couch: a pet that seeks the couch is updated until it     *)
(* sleeps, from the corners and the middle of the clamped world to couches  *)
(* at the ends and in the middle of the range positionCouch draws from.     *)

\* number of updates followed: more than the diagonal of the largest canvas
\* takes at the seeking speed
MaxSeekTicks == 1000

\* numerators of the Math.random() results of positionCouch
SeekDraws == {0, RandDen \div 2, RandDen - 1}

SeekWorlds ==
    { [positionCouch(playWorld(z, CHOOSE cs \in CouchSizes : TRUE,
                               CHOOSE fs \in FoodSizes : TRUE, 0, 0), rx, ry)
          EXCEPT !.cat.state = SEEKING_COUCH,
                 !.cat.exhaustMeter = Exh(SLEEP_THRESHOLD) + Exh(1),
                 !.cat.x = p[1] * ((canvasWidth(z) - scaledWidth(z)) \div 2),
                 !.cat.y = p[2] * ((canvasHeight(z) - scaledHeight(z)) \div 2)] :
        z \in Zooms, rx \in SeekDraws, ry \in SeekDraws,
        p \in {<<0, 0>>, <<2, 0>>, <<0, 2>>, <<2, 2>>, <<1, 1>>} }

InitSeek == \E w \in SeekWorlds : InitAt(w)

\* an update of the pet on its way, the pointer where it was
SeekUpdate ==
    /\ ~loopStopped
    /\ cat.state = SEEKING_COUCH
    /\ ticks < MaxSeekTicks
    /\ UpdateStep(<<cat.lastPointerX, cat.lastPointerY>>)

NextSeek == SeekUpdate

\* the step every such update takes, and only such an update
SeekTick ==
    /\ ~loopStopped
    /\ cat.state = SEEKING_COUCH
    /\ ticks < MaxSeekTicks
    /\ ticks' = ticks + 1

\* updates keep arriving
SpecSeek == InitSeek /\ [][NextSeek]_vars /\ WF_ticks(SeekTick)

----------------------------------------------------------------------------
(* The best time: games are won one after the other with any of a few       *)
(* completion times, in a browser that holds no best time or that of an     *)
(* earlier session.                                                         *)

\* number of games won
MaxRuns == 3

\* game.gameTime at the win: 120 s is the least time three evolutions take
BestTimes == {Sec(120), Sec(125), Sec(125) + 1, Sec(170)}

\* the item of an earlier session, if any
BestItems == {<<>>, numberToString(Sec(125))}

\* the title screen after the trackBestTime() call of the script's start
InitBest ==
    \E i \in BestItems :
        InitAt([titleWorld(MIN_ZOOM, CHOOSE cs \in CouchSizes : TRUE,
                           CHOOSE fs \in FoodSizes : TRUE, 0, 0)
                   EXCEPT !.storage = trackBestTime(
                                          [emptyStorage EXCEPT !.item = i, !.first = i], 0)])

\* evolve() beyond the final level calls trackBestTime(game.gameTime)
TrackBest(t) ==
    /\ Len(storage.runs) <= MaxRuns
    /\ storage' = trackBestTime(storage, t)
    /\ UNCHANGED <<cat, couch, food, game, loopStopped, sceneStopped, player, canvasMode,
                   zoomFactor, ticks, resizes, last, origin, callbacks, pending, sampler,
                   clock, loader>>

NextBest == \E t \in BestTimes : TrackBest(t)

SpecBest == InitBest /\ [][NextBest]_vars

----------------------------------------------------------------------------
(* Loading the images: the handlers of the images fire one by one, each     *)
(* image either loads or fails, in any order; the reaction of Promise.all   *)
(* runs before the next handler.  The game is set up when the promise       *)
(* resolves, so the other variables stand still at their first values.      *)

\* the asset lists load() is called with: the game's, two images of one
\* name in two formats, a name with two dots
AssetLists ==
    { GameAssets,
      << <<"kitten", "png">>, <<"kitten", "webp">>, <<"food", "webp">> >>,
      << <<"sprite", "v2", "png">>, <<"food", "webp">> >> }

InitLoad ==
    \E a \in AssetLists :
        /\ InitWorld(titleWorld(MIN_ZOOM, CHOOSE cs \in CouchSizes : TRUE,
                                CHOOSE fs \in FoodSizes : TRUE, 0, 0))
        /\ callbacks = [stored |-> FALSE, loose |-> 0]
        /\ loader = loading(a)

\* the load event of image i
ImageLoads(i) ==
    /\ loader.fired[i] = "none"
    /\ ~loader.job
    /\ loader' = onload(loader, i)
    /\ UNCHANGED <<cat, couch, food, game, loopStopped, sceneStopped, player, canvasMode,
                   zoomFactor, ticks, resizes, last, origin, callbacks, pending, sampler,
                   clock, storage>>

\* the error event of image i
ImageFails(i) ==
    /\ loader.fired[i] = "none"
    /\ ~loader.job
    /\ loader' = onerror(loader, i)
    /\ UNCHANGED <<cat, couch, food, game, loopStopped, sceneStopped, player, canvasMode,
                   zoomFactor, ticks, resizes, last, origin, callbacks, pending, sampler,
                   clock, storage>>

\* the queued reaction of Promise.all runs
RunReaction ==
    /\ loader.job
    /\ loader' = allThen(loader)
    /\ UNCHANGED <<cat, couch, food, game, loopStopped, sceneStopped, player, canvasMode,
                   zoomFactor, ticks, resizes, last, origin, callbacks, pending, sampler,
                   clock, storage>>

NextLoad ==
    \/ \E i \in DOMAIN loader.assets : ImageLoads(i)
    \/ \E i \in DOMAIN loader.assets : ImageFails(i)
    \/ RunReaction

SpecLoad == InitLoad /\ [][NextLoad]_vars

----------------------------------------------------------------------------
(* Falling asleep with the happiness saturated and the food bowl shown: on  *)
(* the couch after seeking it, and where the pet stands after ten seconds   *)
(* of idleness; then the sleep, to the update that wakes the pet.           *)

\* number of updates followed
MaxSleepTicks == 1300

\* the pet has just started to seek the couch, a step or two away from it;
\* and a pet one update before it is found idle, the pointer resting on it.
\* The happiness is saturated, with little saturated time accrued or with the
\* evolution one update away; the food bowl is hidden or shown out of reach.
SleepWorlds ==
    LET pw == playWorld(MIN_ZOOM, CHOOSE cs \in CouchSizes : TRUE,
                        CHOOSE fs \in FoodSizes : TRUE, 0, 0)
        sat(w, l, t) ==
            [w EXCEPT !.cat.happinessMeter = Hap(HAPPINESS_MAX),
                      !.cat.evolutionLevel = l,
                      !.cat.evolutionTargetTime = Sec(EVOLUTION_BASE_TIME) * (l + 1),
                      !.cat.evolutionTimer = Sec(EVOLUTION_BASE_TIME) * (l + 1) - t,
                      !.canvasMode = IF l = 2 THEN "storm" ELSE ""]
        bowl(w, shown) ==
            [w EXCEPT !.food.x = w.cat.x + Px(3 * TILE_SIZE), !.food.y = w.cat.y,
                      !.food.isVisible = shown]
        onPet(w) == [w EXCEPT !.cat.lastPointerX = w.cat.x + Px(2),
                              !.cat.lastPointerY = w.cat.y]
        pc == positionCouch(pw, RandDen \div 2, RandDen \div 2)
    IN  { startSeekingCouch(
              bowl(sat([pc EXCEPT !.cat.exhaustMeter = Exh(SLEEP_THRESHOLD),
                                  !.cat.x = pc.couch.x + Px(d),
                                  !.cat.y = pc.couch.y], l, t), shown)) :
            d \in {4, 12}, l \in {0, FINAL_LEVEL}, t \in {1, Sec(5)}, shown \in BOOLEAN }
        \cup
        { onPet(bowl(sat([pw EXCEPT !.cat.state = s,
                                    !.cat.exhaustMeter = Exh(FOOD_EXHAUST_LEVEL) + Exh(5),
                                    !.cat.idleTimer = Sec(IDLE_TIMEOUT) - 1], l, Sec(5)),
                     shown)) :
            s \in {AWAKE, EXHAUSTED}, l \in {0, FINAL_LEVEL}, shown \in BOOLEAN }

InitSleep == \E w \in SleepWorlds : InitAt(w)

\* the pet has woken up from a sleep
Awoken == last.act = "update" /\ last.before.state = ASLEEP /\ cat.state # ASLEEP

\* an update: the pointer rests until the pet sleeps, and rests or moves
\* while it sleeps
SleepUpdate ==
    /\ ~loopStopped
    /\ ~Awoken
    /\ ticks < MaxSleepTicks
    /\ \E p \in {<<cat.lastPointerX, cat.lastPointerY>>}
                  \cup (IF cat.state = ASLEEP THEN PhasePointers(zoomFactor) ELSE {}) :
          UpdateStep(p)

NextSleep ==
    \/ SleepUpdate
    \/ \E key \in PlayKeys : KeyUp(key)

SpecSleep == InitSleep /\ [][NextSleep]_vars

----------------------------------------------------------------------------
(* Properties *)

\* the step just taken was a cat.update call
Updated == last.act = "update"
\* the bounds of the position: [0, canvas.width - scaled.width] x
\* [0, canvas.height - scaled.height]
maxCatX == canvasWidth(zoomFactor) - scaledWidth(zoomFactor)
maxCatY == canvasHeight(zoomFactor) - scaledHeight(zoomFactor)

\* the transition table of the specification (section 4.4)
TableEdges ==
    { <<AWAKE, IDLE>>, <<AWAKE, EXHAUSTED>>, <<AWAKE, SEEKING_COUCH>>, <<AWAKE, EATING>>,
      <<IDLE, AWAKE>>, <<EXHAUSTED, AWAKE>>, <<IDLE, SEEKING_COUCH>>, <<IDLE, ASLEEP>>,
      <<SEEKING_COUCH, ASLEEP>>, <<EATING, AWAKE>>, <<ASLEEP, AWAKE>> }
\* the edges an Exhausted or Idle pet takes in addition: an Exhausted pet
\* goes Idle on the idle timeout and starts eating next to the food; a
\* re-engaged pet moves in the same update and ends it Exhausted or
\* SeekingCouch by the exhaust thresholds; an Idle pet next to the food
\* starts eating
RestEdges ==
    { <<EXHAUSTED, IDLE>>, <<EXHAUSTED, EATING>>, <<EXHAUSTED, SEEKING_COUCH>>,
      <<IDLE, EXHAUSTED>>, <<IDLE, EATING>> }

\* C1 as stated: from one update to the next the pet's state changes only
\* along the edges of the transition table.
C1_TableOnly ==
    [][cat'.state # cat.state => <<cat.state, cat'.state>> \in TableEdges]_vars

\* C1 amended: every change of the pet's state is along an edge of the
\* transition table or one of Exhausted->Idle, Exhausted->Eating,
\* Exhausted->SeekingCouch, Idle->Exhausted, Idle->Eating.
C1_Edges ==
    [][cat'.state # cat.state => <<cat.state, cat'.state>> \in TableEdges \cup RestEdges]_vars

\* an update took an Exhausted pet to Eating
C1_Witness == Updated /\ last.before.state = EXHAUSTED /\ cat.state = EATING

\* C2: after every update (and every key press, new games included)
\* 0 <= happinessMeter <= 100.
C2_HappinessBounds ==
    cat.happinessMeter >= 0 /\ cat.happinessMeter <= Hap(HAPPINESS_MAX)

\* an update raised the happiness of a moving pet to 100
C2_Witness ==
    /\ Updated
    /\ last.before.happinessMeter < Hap(HAPPINESS_MAX)
    /\ cat.happinessMeter = Hap(HAPPINESS_MAX)

\* C3 as stated: after every update 0 <= exhaustMeter <= SLEEP_THRESHOLD.
C3_ExhaustBounds ==
    cat.exhaustMeter >= 0 /\ cat.exhaustMeter <= Exh(SLEEP_THRESHOLD)

\* C4: evolve() is not called in an update at whose start happinessMeter < 100.
C4_NoEvolveUnsaturated ==
    [][(last'.act = "update" /\ cat.happinessMeter < Hap(HAPPINESS_MAX))
          => last'.evolved = 0]_vars

\* an update started below 100 with the evolution timer one step before its
\* target and did not evolve
C4_Witness ==
    /\ Updated
    /\ last.before.happinessMeter < Hap(HAPPINESS_MAX)
    /\ last.before.evolutionTimer + 1 >= last.before.evolutionTargetTime
    /\ last.evolved = 0

\* C5: an update calls evolve() once if happinessMeter is 100 at its start
\* and evolutionTimer + dt >= evolutionTargetTime, and not at all otherwise.
C5_EvolveExactly ==
    [][last'.act = "update" =>
          last'.evolved = (IF cat.happinessMeter >= Hap(HAPPINESS_MAX)
                              /\ cat.evolutionTimer + 1 >= cat.evolutionTargetTime
                           THEN 1 ELSE 0)]_vars

\* an update evolved the pet, the one before it did not
C5_Witness ==
    /\ Updated
    /\ last.evolved = 1
    /\ last.before.evolutionTimer + 1 = last.before.evolutionTargetTime
    /\ cat.evolutionTimer = 0

\* C6: an update that starts in Eating or Asleep leaves the position; one
\* that starts in Eating, SeekingCouch or Asleep does not advance idleTimer
\* or outsideRangeTimer, changes exhaustMeter only by the reset on eating
\* completion or on waking, and moves the pet, if at all, towards the
\* couch by at most the seeking speed or onto the couch.
C6_OwnedTick ==
    [][(last'.act = "update" /\ cat.state \in {EATING, SEEKING_COUCH, ASLEEP}) =>
          /\ cat.state \in {EATING, ASLEEP} => (cat'.x = cat.x /\ cat'.y = cat.y)
          /\ cat'.idleTimer <= cat.idleTimer
          /\ cat'.outsideRangeTimer <= cat.outsideRangeTimer
          /\ \/ cat'.exhaustMeter = cat.exhaustMeter
             \/ cat.state = EATING /\ cat'.state = AWAKE /\ cat'.exhaustMeter = 0
             \/ cat.state = ASLEEP /\ cat'.state = AWAKE
          /\ (cat.state = SEEKING_COUCH /\ cat'.state = SEEKING_COUCH) =>
                /\ (cat'.x - cat.x) * (couch'.x - cat.x) >= 0
                /\ (cat'.y - cat.y) * (couch'.y - cat.y) >= 0
                /\ Abs(cat'.x - cat.x) <= seekSpeed
                /\ Abs(cat'.y - cat.y) <= seekSpeed]_vars

\* an update of a sleeping pet during which the pointer moved
C6_Witness ==
    /\ Updated
    /\ last.before.state = ASLEEP
    /\ last.before.exhaustMeter > 0
    /\ 2 * Abs(cat.lastPointerX - last.before.lastPointerX) > Px(1)

\* C7: a pet that starts eating (eatingTimer = 0) is Eating after each of
\* the updates that leave eatingTimer < EATING_DURATION, and after the update
\* in which eatingTimer reaches EATING_DURATION it is Awake with
\* exhaustMeter = 0 and the food bowl hidden.
C7_EatingCycle ==
    (origin.state = EATING /\ origin.eatingTimer = 0) =>
        /\ ticks < Sec(EATING_DURATION) => (cat.state = EATING /\ cat.eatingTimer = ticks)
        /\ ticks >= Sec(EATING_DURATION) =>
              /\ ticks = Sec(EATING_DURATION)
              /\ cat.state = AWAKE
              /\ cat.exhaustMeter = 0
              /\ ~food.isVisible

\* the update that completed the meal
C7_Witness ==
    /\ origin.state = EATING /\ origin.eatingTimer = 0
    /\ Updated
    /\ last.before.state = EATING /\ last.before.exhaustMeter > 0 /\ last.food.isVisible
    /\ cat.state = AWAKE
    /\ ticks = Sec(EATING_DURATION)

\* C8: a pet that falls asleep at the couch (sleepTimer = 0, not bored) with
\* happiness H is Asleep after each of the first SLEEP_DURATION / dt - 1
\* updates; after update number SLEEP_DURATION / dt it is Awake with
\* sleepTimer = 0, exhaustMeter = 50 * (evolutionLevel + 1) and happiness
\* 0.9 * max(0, H - SLEEP_DURATION) (one dt of decay per update, floored at 0).
C8_SleepCycle ==
    (origin.state = ASLEEP /\ origin.sleepTimer = 0 /\ ~origin.bored) =>
        /\ ticks < Sec(SLEEP_DURATION) => cat.state = ASLEEP
        /\ ticks >= Sec(SLEEP_DURATION) =>
              /\ ticks = Sec(SLEEP_DURATION)
              /\ cat.state = AWAKE
              /\ cat.sleepTimer = 0
              /\ cat.exhaustMeter = Exh(50) * (cat.evolutionLevel + 1)
              /\ cat.happinessMeter = (9 * Max(0, origin.happinessMeter - ticks)) \div 10

\* the update that woke the pet, some happiness left
C8_Witness ==
    /\ origin.state = ASLEEP /\ origin.sleepTimer = 0 /\ ~origin.bored
    /\ Updated
    /\ last.before.state = ASLEEP
    /\ cat.state = AWAKE
    /\ cat.happinessMeter > 0
    /\ cat.evolutionLevel > 0

\* C9 as stated: after every update 0 <= cat.x <= canvas.width - scaledWidth
\* and 0 <= cat.y <= canvas.height - scaledHeight.
C9_InBounds ==
    Updated => /\ 0 <= cat.x /\ cat.x <= maxCatX
               /\ 0 <= cat.y /\ cat.y <= maxCatY

\* C10 as stated: an update in which an Awake pet moves towards the pointer
\* changes exhaustMeter by exactly distanceMoved * EXHAUST_FACTOR.
C10_MoveGainOnly ==
    (Updated /\ last.before.state = AWAKE /\ last.moved > 0 /\ cat.state = AWAKE)
       => cat.exhaustMeter - last.before.exhaustMeter
             = (last.moved * ExhScale) \div (10 * PosScale)

\* an update with the pointer where it was and without a change of state
Still ==
    /\ last'.act = "update"
    /\ cat'.lastPointerX = cat.lastPointerX /\ cat'.lastPointerY = cat.lastPointerY
    /\ cat'.state = cat.state

\* C11 as stated: while the pointer does not change and no state transition
\* fires, idleTimer and outsideRangeTimer never decrease from one update to
\* the next.
C11_TimersMonotone ==
    [][Still => /\ cat'.idleTimer >= cat.idleTimer
                /\ cat'.outsideRangeTimer >= cat.outsideRangeTimer]_vars

\* C11 amended: while the pointer does not change and no state transition
\* fires, idleTimer never decreases, and outsideRangeTimer never decreases
\* unless the pointer is within maxFollowDistance, where the update sets it
\* to 0.
C11_TimersStill ==
    [][Still =>
          /\ cat'.idleTimer >= cat.idleTimer
          /\ \/ cat'.outsideRangeTimer >= cat.outsideRangeTimer
             \/ /\ cat'.outsideRangeTimer = 0
                /\ distanceSq(cat.lastPointerX, cat.lastPointerY, cat.x, cat.y)
                      < twice(maxFollowDistance(zoomFactor)) * twice(maxFollowDistance(zoomFactor))]_vars

\* the pointer rested on the pet after a time out of range: the update
\* advanced idleTimer and cleared outsideRangeTimer, the state stayed
C11_Witness ==
    /\ Updated
    /\ cat.lastPointerX = last.before.lastPointerX
    /\ cat.lastPointerY = last.before.lastPointerY
    /\ cat.state = last.before.state
    /\ last.before.outsideRangeTimer > 0
    /\ cat.outsideRangeTimer = 0
    /\ cat.idleTimer > last.before.idleTimer

\* C12 as stated: after a re-engagement idleTimer, outsideRangeTimer,
\* sleepTimer, eatingTimer and evolutionTimer are all 0.
C12_AllTimersZero ==
    last.reengaged =>
        /\ cat.idleTimer = 0 /\ cat.outsideRangeTimer = 0
        /\ cat.sleepTimer = 0 /\ cat.eatingTimer = 0 /\ cat.evolutionTimer = 0

\* C12 amended: after a re-engagement idleTimer and outsideRangeTimer are 0;
\* sleepTimer and eatingTimer keep their values and evolutionTimer is not
\* reset (it can only have been advanced, or reset by an evolution, in the
\* same update).
C12_Reengage ==
    last.reengaged =>
        /\ cat.idleTimer = 0 /\ cat.outsideRangeTimer = 0
        /\ cat.sleepTimer = last.before.sleepTimer
        /\ cat.eatingTimer = last.before.eatingTimer
        /\ cat.evolutionTimer >= last.before.evolutionTimer \/ last.evolved > 0

\* an idle pet re-engaged with its idle timer running, some time after a
\* meal and with saturated time accrued
C12_Witness ==
    /\ last.reengaged
    /\ last.before.state = IDLE
    /\ last.before.idleTimer > 0
    /\ cat.eatingTimer > 0
    /\ cat.evolutionTimer > 0

\* C13: in every reachable state, right after evolve() and right after a
\* new-game reset included, evolutionTargetTime = EVOLUTION_BASE_TIME *
\* (evolutionLevel + 1).
C13_TargetTime ==
    cat.evolutionTargetTime = Sec(EVOLUTION_BASE_TIME) * (cat.evolutionLevel + 1)

\* Enter after the win started a new game
C13_Witness ==
    /\ last.act = "key"
    /\ last.before.evolutionLevel = FINAL_LEVEL + 1
    /\ cat.evolutionLevel = 0
    /\ ~loopStopped

C15_ClockStops ==
    [][game.over => /\ last'.act # "update"
                    /\ (game'.gameTime = game.gameTime \/ ~game'.over)]_vars

\* C16: evolutionLevel is an index of LEVEL (0..3) in every reachable state;
\* it changes only by +1 in an evolve() and returns to 0 only in the new-game
\* reset of the key handler after a win.
C16_LevelSteps ==
    /\ cat.evolutionLevel + 1 \in DOMAIN LEVEL
    /\ [][/\ cat'.evolutionLevel + 1 \in DOMAIN LEVEL
          /\ cat'.evolutionLevel # cat.evolutionLevel
                => \/ last'.act = "update" /\ last'.evolved = 1
                      /\ cat'.evolutionLevel = cat.evolutionLevel + 1
                   \/ last'.act = "key" /\ game.over /\ cat'.evolutionLevel = 0]_vars

\* the Enter key starts a new game after a win
StartsNewGame == game.over /\ last'.act = "key" /\ ~game'.over

\* C17 as stated: after the new-game reset evolutionLevel, happinessMeter,
\* exhaustMeter and the five timers have the values of the session start
\* (all 0).
C17_SessionStart ==
    [][StartsNewGame =>
          /\ cat'.evolutionLevel = newCat(zoomFactor).evolutionLevel
          /\ cat'.happinessMeter = newCat(zoomFactor).happinessMeter
          /\ cat'.exhaustMeter = newCat(zoomFactor).exhaustMeter
          /\ \A t \in {"idleTimer", "outsideRangeTimer", "sleepTimer", "eatingTimer",
                        "evolutionTimer"} : cat'[t] = newCat(zoomFactor)[t]]_vars

\* C17 (amended): the new-game reset sets evolutionLevel, evolutionTimer and
\* exhaustMeter to 0, evolutionTargetTime to EVOLUTION_BASE_TIME,
\* happinessMeter to 25 and game.gameTime to 0; the state, the position and
\* idleTimer, outsideRangeTimer, sleepTimer, eatingTimer keep their values.
C17_NewGame ==
    [][StartsNewGame =>
          /\ cat' = [cat EXCEPT !.evolutionLevel = 0,
                                !.evolutionTimer = 0,
                                !.evolutionTargetTime = Sec(EVOLUTION_BASE_TIME),
                                !.exhaustMeter = 0,
                                !.happinessMeter = Hap(NEW_GAME_HAPPINESS)]
          /\ game'.gameTime = 0]_vars

\* a new game was started after a win, with the idle timer of the won game
\* still positive
C17_Witness ==
    /\ last.act = "key"
    /\ last.before.evolutionLevel = FINAL_LEVEL + 1
    /\ cat.evolutionLevel = 0
    /\ cat.happinessMeter = Hap(NEW_GAME_HAPPINESS)
    /\ cat.idleTimer > 0
    /\ ~game.over

\* C18: an update called with a negative dt is rejected or treated as
\* dt = 0: afterwards happinessMeter and exhaustMeter are within their bounds
\* and no timer is smaller than before.
C18_BadDtHarmless ==
    [][(last'.act = "update" /\ game'.gameTime < game.gameTime) =>
          /\ cat'.happinessMeter \in 0..Hap(HAPPINESS_MAX)
          /\ cat'.exhaustMeter \in 0..Exh(SLEEP_THRESHOLD)
          /\ \A t \in {"idleTimer", "outsideRangeTimer", "sleepTimer", "eatingTimer",
                        "evolutionTimer"} : cat'[t] >= cat[t]]_vars

\* C19: a tick is deterministic: from the same state, with the same pointer
\* position and dt, every run of update ends in the same state, whatever
\* Math.random() returns while the food is placed or the couch repositioned.
C19_Deterministic ==
    \A p \in Pointers(zoomFactor) :
        \A d \in RandDraws \X RandDraws \X RandDraws \X RandDraws :
            update(World, p[1], p[2], d) = update(World, p[1], p[2], <<0, 0, 0, 0>>)

\* C20: positionFood makes at most 20 draws; it goes on drawing only while
\* every draw so far was closer to the couch than the minimum separation and
\* fewer than 20 were made, so it stops at the first draw that is far enough;
\* it leaves the food visible at the last drawn position, which is too close
\* to the couch only if all 20 draws were.
C20_BoundedRetry ==
    /\ sampler.attempts <= FOOD_ATTEMPTS
    /\ (sampler.at = "loop" /\ sampler.attempts > 0)
          => sampler.allClose /\ sampler.attempts < FOOD_ATTEMPTS
    /\ sampler.at \in {"set", "done"}
          => \/ ~tooClose(sampler.x, sampler.y, couch)
             \/ sampler.attempts = FOOD_ATTEMPTS /\ sampler.allClose
    /\ sampler.at = "done"
          => /\ food.isVisible
             /\ food.x = sampler.x /\ food.y = sampler.y
             /\ tooClose(food.x, food.y, couch)
                   => sampler.attempts = FOOD_ATTEMPTS /\ sampler.allClose

\* positionFood ended after 20 draws that were all too close to the couch,
\* the food placed at the last of them
C20_Witness ==
    /\ sampler.at = "done"
    /\ sampler.attempts = FOOD_ATTEMPTS
    /\ food.isVisible
    /\ tooClose(food.x, food.y, couch)

\* C21: the couch keeps the margin 2 * TILE_SIZE * zoomFactor from every
\* canvas edge: margin <= couch.x <= maxX and margin <= couch.y <= maxY with
\* maxX = canvas.width - couch.width * zoomFactor - margin, maxY likewise.
C21_CouchMargins ==
    LET margin == Px(2 * TILE_SIZE * zoomFactor)
        maxX == canvasWidth(zoomFactor) - Px(couch.width * zoomFactor) - margin
        maxY == canvasHeight(zoomFactor) - Px(couch.height * zoomFactor) - margin
    IN  /\ margin <= couch.x /\ couch.x <= maxX
        /\ margin <= couch.y /\ couch.y <= maxY

\* Enter or Escape was released
EnterReleased == last'.act = "key" /\ last'.key \in {"Enter", "Escape"}

\* C22: every Enter or Escape key-up toggles the game loop: a stopped loop is
\* started, after the new-game reset if the game is over; a running loop is
\* stopped and the pause scene is shown.
C22_EnterToggles ==
    [][EnterReleased =>
          /\ loopStopped' = ~loopStopped
          /\ loopStopped
                => /\ ~game'.over
                   /\ game.over => cat'.evolutionLevel = 0 /\ game'.gameTime = 0
                   /\ ~game.over => cat' = cat /\ game'.gameTime = game.gameTime
          /\ ~loopStopped => ~sceneStopped' /\ ~last'.threw]_vars

\* a game that has run for more than one update was paused by Enter, the
\* pause scene is shown
C22_Witness ==
    /\ last.act = "key" /\ last.key = "Enter"
    /\ loopStopped /\ ~sceneStopped
    /\ ~game.muted
    /\ ticks > 1
    /\ ~game.over

\* C24: every M key-up toggles game.muted, and in every reachable state
\* game.muted implies that no music player is active.
C24_MutedSilent ==
    /\ [](game.muted => player = "none" /\ ~game.musicPlaying)
    /\ [][(last'.act = "key" /\ last'.key = "m") => game'.muted = ~game.muted]_vars

\* M was released during play with the music on: the game is muted, the
\* player was stopped
C24_Witness ==
    /\ last.act = "key" /\ last.key = "m"
    /\ game.muted /\ ~last.threw
    /\ ~loopStopped
    /\ player = "none"

\* C23: while the game is paused by Enter the pet (state, position, meters,
\* timers, evolutionLevel) and game.gameTime stay exactly as they were at the
\* moment of the pause, and the Enter that resumes leaves them as they are:
\* no update runs while paused.
C23_PauseFreezes ==
    /\ []((loopStopped /\ last.pausedAt # <<>>) => <<cat, game.gameTime>> = last.pausedAt)
    /\ [][(EnterReleased /\ loopStopped /\ ~game.over)
              => cat' = cat /\ game'.gameTime = game.gameTime]_vars

\* C26: update is only called while the loop is running: never before the
\* first start(), never after a stop() until the next start(), also when
\* stop() is called from inside an update.
C26_UpdateOnlyRunning ==
    [][last'.act = "update" => ~loopStopped]_vars

\* C27 as stated: after every frame the number of update calls is
\* floor(total elapsed time / delta) with delta = 1000 / fps ms, and
\* 0 <= accumulator < delta.
C27_ExactCount ==
    clock.at = "idle" =>
        /\ clock.updates = (clock.elapsed * Fps) \div Ms(MS_PER_SECOND)
        /\ 0 <= clock.accumulator /\ clock.accumulator < delta

\* C27 (amended): the updates made and the accumulator account for the
\* elapsed time, updates * delta + accumulator = elapsed, with delta as the
\* loop holds it (rounded); after every frame 0 <= accumulator < delta.
C27_FixedStep ==
    /\ clock.updates * delta + clock.accumulator = clock.elapsed
    /\ clock.accumulator >= 0
    /\ clock.at = "idle" => clock.accumulator < delta

\* one frame of 50 ms: two updates are made, the accumulator keeps a little
\* less than delta
C27_Witness ==
    /\ clock.at = "idle"
    /\ clock.elapsed = Ms(50)
    /\ clock.updates = 2
    /\ clock.accumulator = Ms(50) - 2 * delta

\* C25: if the pointer position never changes and updates keep being
\* delivered (the loop is not stopped), the pet is eventually Asleep.
C25_FallsAsleep == <>(cat.state = ASLEEP \/ loopStopped)

\* a pet that was Awake, then Idle, fell asleep where it stood out of boredom
C25_Witness ==
    /\ cat.state = ASLEEP
    /\ origin.state = AWAKE
    /\ last.before.state = IDLE
    /\ cat.bored
    /\ ~loopStopped

\* an update that began with the pet Idle or Exhausted, the pointer moved
\* since the update before and less than reengagementDistance away
\* (half-scaled)
ReengageCase ==
    /\ Updated
    /\ last.before.state \in {IDLE, EXHAUSTED}
    /\ <<cat.lastPointerX, cat.lastPointerY>>
           # <<last.before.lastPointerX, last.before.lastPointerY>>
    /\ distanceSq(cat.lastPointerX, cat.lastPointerY, last.before.x, last.before.y)
           < twice(reengagementDistance(zoomFactor)) * twice(reengagementDistance(zoomFactor))
\* the pointer was farther than minDistance from the pet (half-scaled)
BeyondMinDistance ==
    distanceSq(cat.lastPointerX, cat.lastPointerY, last.before.x, last.before.y)
        > twice(minDistance(zoomFactor)) * twice(minDistance(zoomFactor))
\* the food was shown within FOOD_THRESHOLD of the pet
FoodInReach ==
    /\ last.food.isVisible
    /\ distanceSq(last.food.x, last.food.y, last.before.x, last.before.y)
           <= Px(FOOD_THRESHOLD) * Px(FOOD_THRESHOLD)

\* C28 as stated: after an update that began in Idle or Exhausted with the
\* pointer moved and nearer than reengagementDistance, the state is Awake and
\* idleTimer = outsideRangeTimer = 0.
C28_ReengagedAwake ==
    ReengageCase =>
        cat.state = AWAKE /\ cat.idleTimer = 0 /\ cat.outsideRangeTimer = 0

\* C28 amended: after such an update idleTimer = outsideRangeTimer = 0, and
\* the pet is Eating if the food was shown within FOOD_THRESHOLD of it;
\* otherwise it is Awake, unless the pointer was farther than minDistance and
\* the exhaust thresholds of the movement made the re-engaged pet Exhausted
\* or SeekingCouch in the same update.
C28_Reengage ==
    ReengageCase =>
        /\ cat.idleTimer = 0 /\ cat.outsideRangeTimer = 0
        /\ IF FoodInReach
           THEN cat.state = EATING /\ ~last.reengaged
           ELSE /\ last.reengaged
                /\ cat.state \in {AWAKE, EXHAUSTED, SEEKING_COUCH}
                /\ cat.state = EXHAUSTED =>
                       /\ BeyondMinDistance
                       /\ cat.exhaustMeter >= Exh(EXHAUST_THRESHOLD) - Exh(1)
                /\ cat.state = SEEKING_COUCH =>
                       /\ BeyondMinDistance
                       /\ cat.exhaustMeter >= Exh(SLEEP_THRESHOLD) - Exh(1)

\* an Idle pet re-engaged and left Awake with both timers at 0
C28_Witness ==
    /\ ReengageCase
    /\ last.before.state = IDLE
    /\ last.before.idleTimer > 0
    /\ last.reengaged
    /\ cat.state = AWAKE
    /\ last.moved > 0

\* exhaustMeter at the end of the movement of the last update: the value the
\* update began with plus EXHAUST_FACTOR points per pixel moved
movedExhaust == last.before.exhaustMeter + (last.moved * ExhScale) \div (10 * PosScale)

\* C29: after an update in which the pet moved toward the pointer and ended
\* the movement with EXHAUST_THRESHOLD <= exhaustMeter < SLEEP_THRESHOLD the
\* pet is Exhausted; with exhaustMeter >= SLEEP_THRESHOLD it is SeekingCouch.
C29_Thresholds ==
    (Updated /\ last.moved > 0) =>
        /\ movedExhaust >= Exh(SLEEP_THRESHOLD) => cat.state = SEEKING_COUCH
        /\ (movedExhaust >= Exh(EXHAUST_THRESHOLD) /\ movedExhaust < Exh(SLEEP_THRESHOLD)) =>
               cat.state = EXHAUSTED

\* the pointer of the last update was not where the update before saw it
PointerMoved ==
    <<cat.lastPointerX, cat.lastPointerY>>
        # <<last.before.lastPointerX, last.before.lastPointerY>>

\* C30 as stated: happinessMeter does not increase in an update that began
\* in Idle, Exhausted, Asleep or SeekingCouch; it rises only in updates that
\* began in Awake with the pet engaged, or in Eating.
C30_NoGainAtRest ==
    (Updated /\ cat.happinessMeter > last.before.happinessMeter) =>
        \/ last.before.state = EATING
        \/ last.before.state = AWAKE /\ last.moved > 0

\* C30 amended: happinessMeter does not increase in an update that began in
\* Asleep or SeekingCouch; in one that began in Idle or Exhausted it rises
\* only if the pet re-engaged and moved; it rises only in updates that began
\* in Eating or in which the pet, Awake or re-engaged, moved toward a pointer
\* that had moved, and then by 6 * dt at most.
C30_HappinessGain ==
    (Updated /\ cat.happinessMeter > last.before.happinessMeter) =>
        \/ last.before.state = EATING
        \/ /\ last.before.state = AWAKE \/ last.reengaged
           /\ last.before.state \in {AWAKE, IDLE, EXHAUSTED}
           /\ last.moved > 0
           /\ PointerMoved
           /\ cat.happinessMeter <= last.before.happinessMeter + 6

\* an Exhausted pet re-engaged by the pointer, moving and happier for it
C30_Witness ==
    /\ Updated
    /\ last.before.state = EXHAUSTED
    /\ last.reengaged
    /\ last.moved > 0
    /\ cat.happinessMeter = last.before.happinessMeter + 6

\* C31: evolutionTimer changes in a step only as follows: an update that
\* begins with happinessMeter >= 100 adds dt to it (and evolve(), if called,
\* sets it to 0), an update that begins below 100 leaves it as it is, and
\* outside of updates only the new-game reset changes it, to 0.
C31_TimerSteps ==
    [][/\ last'.act = "update" =>
              cat'.evolutionTimer =
                  IF last'.evolved > 0 THEN 0
                  ELSE IF cat.happinessMeter >= Hap(HAPPINESS_MAX)
                       THEN cat.evolutionTimer + 1
                       ELSE cat.evolutionTimer
       /\ last'.act # "update" =>
              \/ cat'.evolutionTimer = cat.evolutionTimer
              \/ StartsNewGame /\ cat'.evolutionTimer = 0]_vars

\* a pet below 100 with saturated time accrued earlier: the first update
\* kept the time and saturated the happiness, the second added dt and
\* evolved on the time of both intervals
C31_Witness ==
    /\ Updated
    /\ ticks = 2
    /\ origin.happinessMeter < Hap(HAPPINESS_MAX)
    /\ origin.evolutionTimer > 0
    /\ last.before.happinessMeter >= Hap(HAPPINESS_MAX)
    /\ last.before.evolutionTimer = origin.evolutionTimer
    /\ last.evolved = 1
    /\ cat.evolutionTimer = 0

\* C32: a pet in SeekingCouch is eventually Asleep, wherever in the clamped
\* world it starts and wherever positionCouch has put the couch, as long as
\* updates keep arriving.
C32_ReachesCouch == <>(cat.state = ASLEEP)

\* a pet that crossed the canvas from the top left corner to a couch at the
\* far end of both ranges and sleeps on it
C32_Witness ==
    /\ cat.state = ASLEEP
    /\ last.before.state = SEEKING_COUCH
    /\ origin.x = 0 /\ origin.y = 0
    /\ couch.x > canvasWidth(zoomFactor) \div 2
    /\ couch.y > canvasHeight(zoomFactor) \div 2
    /\ ticks > 100
    /\ ~cat.bored

\* the last update woke the pet
Woke == Updated /\ last.before.state = ASLEEP /\ cat.state = AWAKE

\* C33 as stated: the exhaustMeter a pet wakes with after a bored sleep is
\* double the one it wakes with after another sleep at the same level,
\* 50 * (evolutionLevel + 1), at every level; waking clears the bored flag.
C33_BoredDoubles ==
    Woke =>
        /\ ~cat.bored
        /\ cat.exhaustMeter =
               (IF last.before.bored THEN 2 ELSE 1) * Exh(50) * (cat.evolutionLevel + 1)

\* C33 amended: a pet wakes with exhaustMeter = 50 * (evolutionLevel + 2)
\* after a bored sleep and 50 * (evolutionLevel + 1) after another sleep, 50
\* more and not the double (the two agree at level 0 only); waking clears
\* the bored flag.
C33_BoredPenalty ==
    Woke =>
        /\ ~cat.bored
        /\ cat.exhaustMeter =
               Exh(50) * (cat.evolutionLevel + (IF last.before.bored THEN 2 ELSE 1))

\* a pet of the final level woke from a bored sleep
C33_Witness ==
    /\ Woke
    /\ last.before.bored
    /\ cat.evolutionLevel = FINAL_LEVEL
    /\ cat.exhaustMeter = Exh(50) * (FINAL_LEVEL + 2)
    /\ ~cat.bored

\* the completion times recorded so far and the time of the item found at
\* the start
TimesSoFar ==
    ({storage.runs[i] : i \in 1..Len(storage.runs)} \ {0})
        \cup (IF storage.first = <<>> THEN {} ELSE {parseDigits(storage.first)})

\* C34: after any sequence of trackBestTime calls the time stored is the
\* least of the time stored before and the times of the calls; a slower run
\* does not overwrite it, the same time twice changes nothing, and the order
\* of two runs makes no difference.
C34_BestIsMinimum ==
    /\ IF TimesSoFar = {}
       THEN storage.item = <<>>
       ELSE /\ parseFloat(storage.item) \in TimesSoFar
            /\ \A t \in TimesSoFar : parseFloat(storage.item) <= t
            /\ storage.shown = parseFloat(storage.item)
    /\ \A a \in BestTimes :
           /\ a >= parseFloat(storage.item) /\ storage.item # <<>> =>
                  trackBestTime(storage, a).item = storage.item
           /\ trackBestTime(trackBestTime(storage, a), a).item
                  = trackBestTime(storage, a).item
           /\ \A b \in BestTimes :
                  trackBestTime(trackBestTime(storage, a), b).item
                      = trackBestTime(trackBestTime(storage, b), a).item

\* the best time of an earlier session was beaten, and a slower run after
\* that left the new best time in place
C34_Witness ==
    /\ storage.first # <<>>
    /\ Len(storage.runs) = 3
    /\ storage.runs[2] < parseDigits(storage.first)
    /\ storage.runs[3] > storage.runs[2]
    /\ storage.item = numberToString(storage.runs[2])
    /\ storage.shown = storage.runs[2]

\* the file name without its extension: the parts of the name but the last
withoutExtension(name) == SubSeq(name, 1, Len(name) - 1)

\* the promise does not change once it is settled
SettlesOnce ==
    loader.state # "pending" =>
        loader'.state = loader.state /\ loader'.value = loader.value

pendingFrames == (IF callbacks.stored THEN 1 ELSE 0) + callbacks.loose

\* C36: at most one frame callback of the game loop is pending on
\* requestAnimationFrame at any time, for every sequence of start() and
\* stop() calls, also for start(), stop(), start() before any frame has run.
C36_OnePendingFrame == pendingFrames <= 1

\* the key released in this step makes the handler call music.stop(): a
\* pause of the unmuted game, or a mute
MusicStopCalled ==
    /\ last'.act = "key"
    /\ \/ last'.key \in {"Enter", "Escape"} /\ ~loopStopped /\ ~game.muted
       \/ last'.key = "m" /\ ~game.muted

\* the key released in this step makes the handler call music.start(): a
\* start of the unmuted game with no music playing, or an unmute while the
\* loop is stopped or no music is playing
MusicStartCalled ==
    /\ last'.act = "key"
    /\ \/ last'.key \in {"Enter", "Escape"} /\ loopStopped
          /\ ~game.muted /\ ~game.musicPlaying
       \/ last'.key = "m" /\ game.muted /\ (loopStopped \/ ~game.musicPlaying)

\* C37: music.stop() is only invoked while a music player exists and
\* music.start() only while none exists, for every sequence of Enter, Escape
\* and M key-ups from the title screen on; the handler never dereferences a
\* null player.
C37_PlayerGuarded ==
    [][/\ MusicStopCalled => player # "none"
       /\ MusicStartCalled => player = "none"
       /\ ~last'.threw]_vars

\* C38: game.loop and game.scene are never running at the same time: in
\* every state reachable through key presses and evolutions at most one of
\* the two has isStopped = false.
C38_LoopOrScene == loopStopped \/ sceneStopped

\* the cutscene of an evolution was left with Enter: the scene that evolve()
\* started is stopped and the loop runs again
C38_Witness ==
    /\ last.act = "key" /\ last.key = "Enter"
    /\ cat.evolutionLevel = origin.evolutionLevel + 1
    /\ ~loopStopped /\ sceneStopped

\* C39: in every reachable state in which the pet is Asleep,
\* happinessMeter < 100; hence the evolution timer does not advance and
\* evolve() does not fire in an update that starts in Asleep.
C39_AsleepNotSaturated ==
    /\ [](cat.state = ASLEEP => cat.happinessMeter < Hap(HAPPINESS_MAX))
    /\ [][(last'.act = "update" /\ cat.state = ASLEEP)
             => /\ cat'.evolutionTimer = cat.evolutionTimer
                /\ last'.evolved = 0]_vars

\* a pet that set out with the happiness saturated has fallen asleep and an
\* update that started in Asleep has run
C39_Witness ==
    /\ origin.happinessMeter = Hap(HAPPINESS_MAX)
    /\ origin.state # ASLEEP
    /\ last.act = "update" /\ last.before.state = ASLEEP
    /\ cat.state = ASLEEP
    /\ last.before.happinessMeter > 0
    /\ cat.sleepTimer >= Sec(1)

\* C40: in every reachable state in which the pet is Asleep the food bowl is
\* hidden: falling asleep hides it, and no update that starts in Asleep shows
\* it again.
C40_AsleepHidesFood ==
    /\ [](cat.state = ASLEEP => ~food.isVisible)
    /\ [][(last'.act = "update" /\ cat.state # ASLEEP /\ cat'.state = ASLEEP)
             => ~food'.isVisible]_vars
    /\ [][(last'.act = "update" /\ cat.state = ASLEEP) => ~food'.isVisible]_vars

\* an Idle pet with the food bowl in view has fallen asleep bored, where it
\* stood, in the last update, and the bowl is hidden
C40_Witness ==
    /\ last.act = "update" /\ last.before.state = IDLE
    /\ last.food.isVisible
    /\ cat.state = ASLEEP /\ cat.bored
    /\ ~food.isVisible

============================================================================
